---- MODULE Spec2Model ----
\* prefab: incremental container-image build orchestrator.
\* Model of lib/prefab/image/graph.py (ImageGraph), lib/prefab/image/factory.py
\* (ImageFactory), lib/prefab/image/docker.py (DockerImage), lib/prefab/walk.py
\* and the driver in lib/prefab/cli.py.
EXTENDS Integers, Sequences, FiniteSets, TLC

\* ---------------------------------------------------------------- bounds
\* longest depends_on list of the exhaustively enumerated registries
MaxDeps == 2
\* longest list of requested targets (--target) in the orchestrator runs
MaxRequested == 2
\* most prune calls that fail in one run
MaxPruneFailures == 1
\* longest list of targets to push (--push) in the orchestrator runs
MaxPush == 2
\* most method calls made on the image of a single-image run
MaxCalls == 2
\* most calls made on the factory of a factory-only run
MaxFactoryCalls == 3
\* envfile.write calls of one run
MaxWrites == 2
\* longest progress stream the engine returns in a single-image run
MaxStream == 2

\* ------------------------------------------------------ program constants
\* constants.DEFAULT_SHORT_DIGEST_SIZE
DEFAULT_SHORT_DIGEST_SIZE == 12
\* constants.DEFAULT_HASH_ALGORITHM
DEFAULT_HASH_ALGORITHM == "sha256"
\* constants.DEFAULT_BUILD_OPTIONS
DEFAULT_BUILD_OPTIONS == [forcerm |-> TRUE, path |-> ".", rm |-> TRUE, squash |-> FALSE]
\* constants.DEFAULT_BUILDARG_PREFIX, character by character
DEFAULT_BUILDARG_PREFIX == <<"P", "R", "E", "F", "A", "B", "_">>

\* ---------------------------------------------------------------- helpers
Last(s) == s[Len(s)]
Front(s) == SubSeq(s, 1, Len(s) - 1)
Range(s) == {s[i] : i \in 1..Len(s)}
InSeq(x, s) == \E i \in 1..Len(s) : s[i] = x
SeqsUpTo(S, n) == UNION {[1..k -> S] : k \in 0..n}
NoRepeat(s) == \A i, j \in 1..Len(s) : i # j => s[i] # s[j]
IndexOf(x, s) == CHOOSE i \in 1..Len(s) : s[i] = x

\* ------------------------------------------------------------- the state
VARIABLES
    registry,          \* Config.data["targets"]: name -> target config
    files,             \* file system: path of a regular file -> content
    listing,           \* file system: directory -> the order os.walk lists it in
    options,           \* Config options of the run
    args,              \* cli options: targets, force, push
    tags,              \* ImageFactory.tags (explicit tags, then memoized tags)
    digests,           \* ImageFactory.digests
    heap,              \* the DockerImage instances created so far
    images,            \* ImageGraph.images: target -> instance
    targets,           \* ImageGraph.targets: requested target -> chain of instances
    pc,                \* position of the run
    ti,                \* index of the requested target being resolved / built
    stack,             \* call stack of _resolve_target_images
    vectors,           \* the `vectors` list (active path of edges)
    acc,               \* the `images` list being accumulated by a resolution
    pos,               \* build_target_images: position in the chain
    cache_invalidated, \* build_target_images: the local flag
    store,             \* container engine: the local image store
    engine,            \* container engine, single-image runs: name -> labels
    environ,           \* os.environ: variable -> value
    error,             \* the exception that ended the run ("none" while running)
    ops,               \* history: engine operations issued, in order
    log,               \* history: digests computed and errors tolerated, in order
    results            \* history: outcome of every finished resolution

vars == <<registry, files, listing, options, args, tags, digests, heap, images,
          targets, pc, ti, stack, vectors, acc, pos, cache_invalidated, store,
          error, ops, log, results, engine, environ>>

inputVars == <<registry, files, listing, options, args, engine, environ>>
factoryVars == <<tags, digests, heap, images>>
resolveVars == <<stack, vectors, acc>>
buildVars == <<pos, cache_invalidated, store, ops>>

\* ------------------------------------------------------------ the registry
\* One target of the registry as Config.get_target returns it: the keys
\* depends_on and watch_files default to [].
Target(dockerfile, depends_on, watch_files) ==
    [dockerfile |-> dockerfile, depends_on |-> depends_on, watch_files |-> watch_files]

\* The dockerfile path of the registries of the model ("Dockerfile.<name>").
Dockerfile(t) ==
    CASE t = "a" -> "Dockerfile.a"
      [] t = "b" -> "Dockerfile.b"
      [] t = "c" -> "Dockerfile.c"
      [] t = "d" -> "Dockerfile.d"
      [] OTHER   -> "Dockerfile"

\* Config.get_target: the target's config, or TargetNotFoundError.
HasTarget(reg, name) == name \in DOMAIN reg

DependsOn(reg, name) == reg[name].depends_on

\* Config.get_target: the key build_options defaults to {}.
BuildOptionsOf(reg, name) ==
    IF "build_options" \in DOMAIN reg[name] THEN reg[name].build_options
    ELSE [x \in {} |-> x]

\* ------------------------------------------------------------------ strings
\* The characters of the target names of the model.
Chars(name) ==
    CASE name = "x-y" -> <<"x", "-", "y">>
      [] name = "x_y" -> <<"x", "_", "y">>
      [] name = "zz"  -> <<"z", "z">>
      [] OTHER        -> <<name>>

\* str.upper on one character.
Upper(ch) ==
    CASE ch = "a" -> "A" [] ch = "b" -> "B" [] ch = "c" -> "C" [] ch = "d" -> "D"
      [] ch = "x" -> "X" [] ch = "y" -> "Y" [] ch = "z" -> "Z"
      [] OTHER -> ch

\* str.upper and str.replace of one character by another.
StrUpper(str) == [i \in 1..Len(str) |-> Upper(str[i])]
StrReplace(str, old, new) == [i \in 1..Len(str) |-> IF str[i] = old THEN new ELSE str[i]]

\* ------------------------------------------------------------ file system
\* Lexicographic rank of the paths of the modelled file system (str ordering,
\* which is what sorted() uses in walk).
AllPaths == <<"Dockerfile", "Dockerfile.a", "Dockerfile.b", "Dockerfile.c", "Dockerfile.d",
              "lib.txt", "src/m1.py", "src/m2.py", "src/m3.pyc">>
PathRank(p) == IndexOf(p, AllPaths)
Directories == {"src"}
DirFiles(d) == {"src/m1.py", "src/m2.py", "src/m3.pyc"}
Contents == {"v0", "v1"}

\* fnmatch of a file path against the ignore patterns: a pattern is modelled by
\* the set of paths it matches.
Ignored(path, ignore_files) == path \in ignore_files

\* walk.filter_files over one directory listing: drops the ignored names.
RECURSIVE filter_files(_, _)
filter_files(file_names, ignore_files) ==
    IF file_names = <<>> THEN <<>>
    ELSE IF Ignored(Head(file_names), ignore_files)
         THEN filter_files(Tail(file_names), ignore_files)
         ELSE <<Head(file_names)>> \o filter_files(Tail(file_names), ignore_files)

\* sorted(): insertion sort by path order.
RECURSIVE Insert(_, _)
Insert(p, s) ==
    IF s = <<>> THEN <<p>>
    ELSE IF PathRank(p) <= PathRank(Head(s)) THEN <<p>> \o s
         ELSE <<Head(s)>> \o Insert(p, Tail(s))

RECURSIVE Sorted(_)
Sorted(s) == IF s = <<>> THEN <<>> ELSE Insert(Head(s), Sorted(Tail(s)))

\* walk.walk(path, ignore_patterns): the filtered files below path, sorted.
WalkUnsorted(enumeration, ignore_files) == filter_files(enumeration, ignore_files)

walk(enumeration, ignore_files) == Sorted(filter_files(enumeration, ignore_files))

\* ----------------------------------------------------------- digest engine
\* hashlib.algorithms_available, as far as the runs tell the names apart.
AlgorithmsAvailable == {"sha256", "md5"}

\* Mutant: every algorithm name is taken for one hashlib has.
HasherAvailableAlways(algorithm) == TRUE

\* ImageFactory.get_hasher: the configured algorithm is one hashlib has.
HasherAvailable(algorithm) == algorithm \in AlgorithmsAvailable

\* hashlib: the hex digest of the sequence of updates fed to a hasher. The
\* hash is modelled as collision-free: the digest is the tagged input itself.
HexDigest(algorithm, updates) == <<algorithm, updates>>

\* ImageFactory.get_file_digest
get_file_digest(fs, path) == HexDigest(options.hash_algorithm, <<fs[path]>>)

\* ImageFactory.get_target_salt
get_target_salt(target) == HexDigest(options.hash_algorithm, <<target>>)

\* ImageFactory._get_target_watch_files: the dockerfile first, then every
\* watched path in order, a directory expanded by walk.
RECURSIVE ExpandWatch(_, _, _)
ExpandWatch(paths, lst, ignore_files) ==
    IF paths = <<>> THEN <<>>
    ELSE (IF Head(paths) \in Directories
          THEN walk(lst[Head(paths)], ignore_files)
          ELSE <<Head(paths)>>) \o ExpandWatch(Tail(paths), lst, ignore_files)

_get_target_watch_files(reg, lst, ignore_files, target) ==
    <<reg[target].dockerfile>> \o ExpandWatch(reg[target].watch_files, lst, ignore_files)

\* Mutant: the digests of the dependencies are left out of the hash.
DigestWithoutDependencies(reg, fs, lst, ignore_files, dg, target) ==
    LET watch == _get_target_watch_files(reg, lst, ignore_files, target)
    IN HexDigest(options.hash_algorithm,
           <<get_target_salt(target)>>
           \o [i \in 1..Len(watch) |-> get_file_digest(fs, watch[i])])

\* ImageFactory._get_target_digest, given the memo dg: salt, then the file
\* digests, then the memoized digest of every dependency in declared order.
\* Reading self.digests[dependency] of a dependency that is not memoized
\* raises KeyError.
DigestReady(reg, dg, target) ==
    \A i \in 1..Len(DependsOn(reg, target)) : DependsOn(reg, target)[i] \in DOMAIN dg

_get_target_digest(reg, fs, lst, ignore_files, dg, target) ==
    LET watch == _get_target_watch_files(reg, lst, ignore_files, target)
        deps  == DependsOn(reg, target)
    IN HexDigest(options.hash_algorithm,
           <<get_target_salt(target)>>
           \o [i \in 1..Len(watch) |-> get_file_digest(fs, watch[i])]
           \o [i \in 1..Len(deps) |-> dg[deps[i]]])

\* The number of characters hexdigest() returns for sha256.
HexLength == 64

\* The length of the Python slice s[:size] of a string of the given length:
\* a size past the end takes the whole string, a negative size counts from
\* the end.
SliceLength(length, size) ==
    IF size >= 0 THEN (IF size < length THEN size ELSE length)
    ELSE (IF length + size > 0 THEN length + size ELSE 0)

\* digest[: short_digest_size]: the leading characters of the hex digest; the
\* characters stay symbolic, the tag records whose they are and how many.
ShortDigest(digest, size) ==
    [prefix_of |-> digest, size |-> SliceLength(HexLength, size)]

\* A tag given on the command line (TARGET_NAME:TAG).
ExplicitTag(tag) == [explicit |-> tag]


\* ------------------------------------------------------------ image factory
\* The memo state threaded through one ImageFactory call: the tags and digests
\* dicts, the digests computed by the call (in order) and the exception raised.
Memo(tg, dg) == [tags |-> tg, digests |-> dg, computed |-> <<>>, err |-> "none"]

\* Mutant: the memo is never consulted.
IsMemoizedNever(dg, target) == FALSE

\* factory.py:103: `if target not in self.digests`, negated.
IsMemoized(dg, target) == target \in DOMAIN dg

\* ImageFactory.get_target_digest: memoized; computes when absent.
get_target_digest(m, target) ==
    IF m.err # "none" \/ IsMemoized(m.digests, target) THEN m
    ELSE IF ~HasherAvailable(options.hash_algorithm)
    THEN [m EXCEPT !.err = "HashAlgorithmNotFound"]
    ELSE IF ~DigestReady(registry, m.digests, target) THEN [m EXCEPT !.err = "KeyError"]
    ELSE [m EXCEPT
            !.digests = (target :> _get_target_digest(registry, files, listing,
                                       options.ignore_files, m.digests, target))
                        @@ m.digests,
            !.computed = Append(m.computed, target)]

\* Mutant: the tag is always cut from the digest, an explicit tag is overwritten.
TagFromDigestAlways(m, target) ==
    IF m.err # "none" THEN m
    ELSE LET d == get_target_digest(m, target)
         IN IF d.err # "none" THEN d
            ELSE [d EXCEPT !.tags = (target :> ShortDigest(d.digests[target],
                                                   options.short_digest_size))
                                    @@ d.tags]

\* ImageFactory.get_target_tag: the explicit or memoized tag, else the first
\* short_digest_size characters of the digest.
get_target_tag(m, target) ==
    IF m.err # "none" \/ target \in DOMAIN m.tags THEN m
    ELSE LET d == get_target_digest(m, target)
         IN IF d.err # "none" THEN d
            ELSE [d EXCEPT !.tags = (target :> ShortDigest(d.digests[target],
                                                   options.short_digest_size))
                                    @@ d.tags]

\* --repo, and DockerImage.name: f"{repo}:{tag}".
Repo == "repo"
ImageName(repo, tag) == <<repo, tag>>

\* dict.update: the keys of the update win.
DictUpdate(dict, update) == update @@ dict

\* factory.py:128: the name of the build argument of a dependency.
BuildArgName(prefix, dependency) ==
    StrReplace(StrUpper(prefix \o Chars(dependency)), "-", "_")

\* factory.py:125-132: the dict the loop of get_target_buildargs fills, given
\* the memoized tags; a later assignment to the same key replaces the earlier.
RECURSIVE BuildArgs(_, _, _)
BuildArgs(tg, deps, buildargs) ==
    IF deps = <<>> THEN buildargs
    ELSE BuildArgs(tg, Tail(deps),
             DictUpdate(buildargs,
                 BuildArgName(DEFAULT_BUILDARG_PREFIX, Head(deps))
                     :> ImageName(Repo, tg[Head(deps)])))

\* ImageFactory.get_target_labels
get_target_labels(dg, target) == [target |-> target, digest |-> dg[target]]

\* Mutant: an override replaces labels and buildargs like any other key.
MergesNever(key) == FALSE

\* factory.py:147: `if key in {"labels", "buildargs"}`.
MergesShallowly(key) == key \in {"labels", "buildargs"}

\* factory.py:146-150: the overrides of the target applied key by key.
ApplyOverrides(build_options, overrides) ==
    [key \in DOMAIN build_options \cup DOMAIN overrides |->
        IF key \notin DOMAIN overrides THEN build_options[key]
        ELSE IF MergesShallowly(key) THEN DictUpdate(build_options[key], overrides[key])
        ELSE overrides[key]]

\* factory.py:136-144: the defaults overlaid with the computed options.
ComputedBuildOptions(m, target) ==
    DictUpdate(DEFAULT_BUILD_OPTIONS,
        [dockerfile |-> registry[target].dockerfile,
         labels     |-> get_target_labels(m.digests, target),
         buildargs  |-> BuildArgs(m.tags, DependsOn(registry, target), [x \in {} |-> x]),
         tag        |-> ImageName(Repo, m.tags[target])])

\* ImageFactory.get_target_build_options, given the memo the call leaves.
get_target_build_options(m, target) ==
    ApplyOverrides(ComputedBuildOptions(m, target), BuildOptionsOf(registry, target))

\* ImageFactory.get_target_buildargs: resolves the tag of every dependency.
RECURSIVE get_target_buildargs(_, _)
get_target_buildargs(m, deps) ==
    IF deps = <<>> THEN m
    ELSE get_target_buildargs(get_target_tag(m, Head(deps)), Tail(deps))

\* ImageFactory.__call__: tag first, then the build options (labels, then
\* buildargs, then the tag again).
ImageFactory(m, target) ==
    LET m1 == get_target_tag(m, target)
        m2 == get_target_digest(m1, target)
    IN get_target_buildargs(m2, DependsOn(registry, target))

\* DockerImage.__init__ with what the factory passes it.
NewImage(m, target) ==
    [target     |-> target,
     tag        |-> m.tags[target],
     build_options |-> get_target_build_options(m, target),
     labels     |-> get_target_build_options(m, target).labels,
     buildargs  |-> get_target_build_options(m, target).buildargs,
     \* _loaded: "None" | "True" | "False"; FakeImage starts at False (fake.py:28)
     loaded     |-> IF args.noop THEN "False" ELSE "None",
     was_pulled |-> FALSE,
     was_built  |-> FALSE]

\* ----------------------------------------------------------------- resolver
\* Python's recursion limit, scaled to the model: never reached by a traversal
\* whose active path holds no edge twice.
RecursionLimit == 4 * (MaxDeps + 2)

\* A frame of _resolve_target_images: the target and the index of the next
\* dependency the for loop visits.
Frame(target) == [target |-> target, i |-> 1]

\* Mutant: the for loop over depends_on is skipped.
FrameDoneAtOnce(reg, frame) == TRUE

\* graph.py:32: the for loop over depends_on is exhausted.
FrameDone(reg, frame) == frame.i > Len(DependsOn(reg, frame.target))

\* Mutant: the edge stays on the list when the recursive call returns.
KeepVector(vecs) == vecs

\* graph.py:41: `vectors.pop()`.
PopVector(vecs) == Front(vecs)

\* Mutant: the repeated edge is never recognised.
OnActivePathNever(vector, vecs) == FALSE

\* graph.py:34: `vector in vectors`.
OnActivePath(vector, vecs) == InSeq(vector, vecs)

\* Mutant: the image is appended without the membership test.
AppendAlways(imgs, image) == Append(imgs, image)

\* graph.py:44-45: `if image not in images: images.append(image)`.
AppendIfAbsent(imgs, image) == IF InSeq(image, imgs) THEN imgs ELSE Append(imgs, image)

\* Mutant: an instance is created at every call.
HasImageNever(imgs, target) == FALSE

\* graph.py:19: `if target not in self.images`, negated.
HasImage(imgs, target) == target \in DOMAIN imgs

\* Mutant: build starts as soon as the first requested target is resolved.
BuildAfterFirst(index, requested) == FALSE

\* graph.py:158-159: the first loop of build has a target left to resolve.
MoreToResolve(index, requested) == index < Len(requested)

\* One line of the run's log that the claims read.
LogEntry(event, target, kind) == [event |-> event, target |-> target, kind |-> kind]

\* factory.py:86-98: what computing the digest of a target leaves in the log:
\* every file get_file_digest opens, in order, then the digest.
DigestLog(target) ==
    LET watch == _get_target_watch_files(registry, listing, options.ignore_files, target)
    IN [i \in 1..Len(watch) |-> LogEntry("open", watch[i], target)]
       \o <<LogEntry("digest", target, "")>>

RECURSIVE DigestLogs(_)
DigestLogs(computed) ==
    IF computed = <<>> THEN <<>>
    ELSE DigestLog(Head(computed)) \o DigestLogs(Tail(computed))

\* Mutant: the exception is recorded and the run goes on.
RaiseAndGoOn(kind) ==
    /\ pc' = pc
    /\ error' = kind

\* The run ends with an exception.
Raise(kind) ==
    /\ pc' = "failed"
    /\ error' = kind

\* The order of a chain of instances, as target names.
ChainTargets(chain) == [i \in 1..Len(chain) |-> heap[chain[i]].target]

Outcome(target, status, chain) == [target |-> target, status |-> status, order |-> chain]

\* ImageGraph.build, first loop: resolve_target_images(target) is called for
\* the next requested target, which is in the registry.
ResolveCall ==
    /\ pc = "resolve" /\ stack = <<>>
    /\ HasTarget(registry, args.targets[ti])
    /\ stack' = <<Frame(args.targets[ti])>>
    /\ vectors' = <<>>
    /\ acc' = <<>>
    /\ UNCHANGED <<inputVars, factoryVars, buildVars, targets, pc, ti, error, log, results>>

\* Config.get_target raises TargetNotFoundError: for the requested target, or
\* for a dependency entered from the top frame (its edge is already pushed).
ResolveNotFound ==
    /\ pc = "resolve"
    /\ \/ /\ stack = <<>>
          /\ ~HasTarget(registry, args.targets[ti])
          /\ UNCHANGED vectors
       \/ /\ stack # <<>>
          /\ ~FrameDone(registry, Last(stack))
          /\ LET target == Last(stack).target
                 dependent == DependsOn(registry, target)[Last(stack).i]
             IN /\ ~OnActivePath(<<target, dependent>>, vectors)
                /\ Len(stack) < RecursionLimit
                /\ ~HasTarget(registry, dependent)
                /\ vectors' = Append(vectors, <<target, dependent>>)
    /\ Raise("TargetNotFoundError")
    /\ results' = Append(results, Outcome(args.targets[ti], "TargetNotFoundError", <<>>))
    /\ UNCHANGED <<inputVars, factoryVars, buildVars, targets, ti, stack, acc, log>>

\* graph.py:34-37: the edge to the next dependency is already on the active
\* path.
ResolveCyclic ==
    /\ pc = "resolve" /\ stack # <<>>
    /\ ~FrameDone(registry, Last(stack))
    /\ LET target == Last(stack).target
           dependent == DependsOn(registry, target)[Last(stack).i]
       IN OnActivePath(<<target, dependent>>, vectors)
    /\ Raise("TargetCyclicError")
    /\ results' = Append(results, Outcome(args.targets[ti], "TargetCyclicError", <<>>))
    /\ UNCHANGED <<inputVars, factoryVars, buildVars, resolveVars, targets, ti, log>>

\* graph.py:38-40: push the edge and recurse into the dependency; the
\* interpreter raises RecursionError at its recursion limit.
ResolveDescend ==
    /\ pc = "resolve" /\ stack # <<>>
    /\ ~FrameDone(registry, Last(stack))
    /\ LET target == Last(stack).target
           dependent == DependsOn(registry, target)[Last(stack).i]
       IN /\ ~OnActivePath(<<target, dependent>>, vectors)
          /\ IF Len(stack) >= RecursionLimit THEN TRUE ELSE HasTarget(registry, dependent)
          /\ vectors' = Append(vectors, <<target, dependent>>)
          /\ IF Len(stack) >= RecursionLimit
             THEN /\ Raise("RecursionError")
                  /\ results' = Append(results,
                                    Outcome(args.targets[ti], "RecursionError", <<>>))
                  /\ UNCHANGED stack
             ELSE /\ stack' = Append([stack EXCEPT ![Len(stack)].i = @ + 1],
                                     Frame(dependent))
                  /\ UNCHANGED <<pc, error, results>>
    /\ UNCHANGED <<inputVars, factoryVars, buildVars, targets, ti, acc, log>>

\* graph.py:43-47 and the caller's vectors.pop() (line 41) or, for the
\* outermost call, build's assignment to self.targets (line 159).
\* configure_target_image creates the instance through the factory when the
\* target has none.
ResolveReturn ==
    /\ pc = "resolve" /\ stack # <<>>
    /\ FrameDone(registry, Last(stack))
    /\ LET target == Last(stack).target
           m == IF HasImage(images, target) THEN Memo(tags, digests)
                ELSE ImageFactory(Memo(tags, digests), target)
       IN IF m.err # "none"
          THEN /\ Raise(m.err)
               /\ results' = Append(results, Outcome(args.targets[ti], m.err, <<>>))
               /\ UNCHANGED <<factoryVars, resolveVars, targets, ti, log>>
          ELSE LET heap1 == IF HasImage(images, target) THEN heap
                            ELSE Append(heap, NewImage(m, target))
                   image == IF HasImage(images, target) THEN images[target]
                            ELSE Len(heap) + 1
                   acc1  == AppendIfAbsent(acc, image)
               IN /\ tags' = m.tags
                  /\ digests' = m.digests
                  /\ heap' = heap1
                  /\ images' = (target :> image) @@ images
                  /\ log' = log \o DigestLogs(m.computed)
                  /\ acc' = acc1
                  /\ stack' = Front(stack)
                  /\ IF Len(stack) > 1
                     THEN /\ vectors' = PopVector(vectors)
                          /\ UNCHANGED <<targets, ti, pc, error, results>>
                     ELSE /\ targets' = (target :> acc1) @@ targets
                          /\ results' = Append(results,
                                 Outcome(target, "ok",
                                         [i \in 1..Len(acc1) |-> heap1[acc1[i]].target]))
                          /\ ti' = IF MoreToResolve(ti, args.targets) THEN ti + 1 ELSE 1
                          /\ pc' = IF MoreToResolve(ti, args.targets)
                                   THEN "resolve" ELSE "build"
                          /\ UNCHANGED <<vectors, error>>
    /\ UNCHANGED <<inputVars, buildVars>>

Resolve == ResolveCall \/ ResolveNotFound \/ ResolveCyclic \/ ResolveDescend \/ ResolveReturn

\* ------------------------------------------------------------- build phase
\* Mutant: the chain is iterated from its end, the requested target first.
ChainFromTheEnd ==
    [i \in 1..Len(targets[args.targets[ti]]) |->
        targets[args.targets[ti]][Len(targets[args.targets[ti]]) + 1 - i]]

\* The chain build_target_images iterates over and the image of the current
\* iteration (graph.py:124).
CurrentChain == targets[args.targets[ti]]
CurrentImage == CurrentChain[pos]

\* History only: some earlier member of the current chain has been built.
BuiltBefore == \E i \in 1..(pos - 1) : heap[CurrentChain[i]].was_built

\* One engine operation as recorded in the history, with the state the image
\* and the run were in when it was issued.
EngineOp(kind, image, result, present) ==
    [op |-> kind, image |-> image, target |-> heap[image].target,
     request |-> ti, at |-> pos, after_built |-> BuiltBefore,
     invalidated |-> cache_invalidated, result |-> result, present |-> present,
     loaded |-> heap[image].loaded, phase |-> pc]

\* The engine's local store holds an entry per image: "none" (no such
\* repo:tag), "good" (present, labels as expected) or "bad" (present, labels
\* differ). The store is outside the program: an entry is fixed when the run
\* first touches that image.
StoreStates == {"none", "good", "bad"}
StoreChoices(target) == IF target \in DOMAIN store THEN {store[target]} ELSE StoreStates
StoreKnown(target) == IF target \in DOMAIN store THEN store[target] ELSE "unknown"

\* The outcomes of prune_images; at most MaxPruneFailures prunes fail in a run.
PruneOutcomes ==
    IF Cardinality({i \in 1..Len(log) : log[i].event = "prune_failed"}) < MaxPruneFailures
    THEN {"ok", "failed"} ELSE {"ok"}

\* Mutant: every image is built without a load attempt.
BuildAlways(force, invalidated) == TRUE

\* Mutant: force is not looked at.
BuildOnlyIfInvalidated(force, invalidated) == invalidated

\* Mutant: only force skips the load attempt.
BuildOnlyIfForced(force, invalidated) == force

\* graph.py:125: `if force or cache_invalidated`.
BuildUnconditionally(force, invalidated) == force \/ invalidated

\* Mutant: an image that loads never sets the flag.
InvalidatesNever(image) == FALSE

\* graph.py:133-134: `if image.was_built: cache_invalidated = True`.
InvalidatesCache(image) == image.was_built

\* Mutant: every pull error is tolerated.
IsAllowedAlways(kind, allowed) == TRUE

\* graph.py:62: `isinstance(error, self.allowed_pull_errors)`.
IsAllowedPullError(kind, allowed) == kind \in allowed

\* Mutant: the ImageValidationError is always swallowed.
ReraisesNever(build_on_validate_error) == FALSE

\* graph.py:91: the ImageValidationError is re-raised.
ReraisesValidationError(build_on_validate_error) == ~build_on_validate_error

\* Mutant: every pulled image is skipped, rebuilt or not.
SkipsPushIfPulled(image) == image.was_pulled

\* graph.py:170: `image.was_pulled and not image.was_built`.
SkipsPush(image) == image.was_pulled /\ ~image.was_built

\* The for loops of build_target_images and build move on: the next image of
\* the chain, else the next requested target (with a fresh cache_invalidated),
\* else build returns.
Advance(invalidated) ==
    IF pos < Len(CurrentChain)
    THEN /\ pos' = pos + 1
         /\ cache_invalidated' = invalidated
         /\ pc' = "build"
         /\ UNCHANGED ti
    ELSE IF ti < Len(args.targets)
    THEN /\ pos' = 1
         /\ cache_invalidated' = FALSE
         /\ pc' = "build"
         /\ ti' = ti + 1
    ELSE /\ pos' = 1
         /\ cache_invalidated' = FALSE
         /\ pc' = "built"
         /\ ti' = 1

\* --dry-run constructs FakeImage (cli.py:141), whose build and push raise
\* nothing (fake.py:40-50); DockerImage.build raises ImageBuildError or
\* succeeds, DockerImage.push raises a push or an access error or succeeds.
BuildOutcomes == IF args.noop THEN {"ok"} ELSE {"ok", "ImageBuildError"}
PushOutcomes ==
    IF args.noop THEN {"ok"} ELSE {"ok", "ImagePushError", "ImageAccessError"}

\* Mutant: prune follows every build, configured or not.
PrunesAlways(opts) == TRUE

\* graph.py:118: `if self.config.prune_after_build`.
PrunesAfterBuild(opts) == opts.prune_after_build

\* Mutant: the loop moves on without building the image.
MovesOnWithoutBuild(image) ==
    /\ Advance(cache_invalidated)
    /\ UNCHANGED <<heap, store, ops, log, error>>

\* ImageGraph._build_image: DockerImage.build, then prune when configured.
\* A failed build raises ImageBuildError; a failed prune is only logged.
_build_image(image) ==
    \E outcome \in BuildOutcomes :
        LET present == StoreKnown(heap[image].target)
        IN
        IF outcome = "ok"
        THEN /\ heap' = [heap EXCEPT ![image].was_built = TRUE, ![image].loaded = "True"]
             /\ store' = (heap[image].target :> "good") @@ store
             /\ \E pruned \in PruneOutcomes :
                   /\ ops' = ops \o <<EngineOp("build", image, "ok", present)>>
                             \o (IF PrunesAfterBuild(options)
                                 THEN <<EngineOp("prune", image, pruned, "good")>>
                                 ELSE <<>>)
                   /\ log' = IF PrunesAfterBuild(options) /\ pruned = "failed"
                             THEN Append(log, LogEntry("prune_failed", heap[image].target, ""))
                             ELSE log
                   /\ PrunesAfterBuild(options) \/ pruned = "ok"
             /\ Advance(TRUE)
             /\ UNCHANGED error
        ELSE /\ ops' = Append(ops, EngineOp("build", image, outcome, present))
             /\ Raise(outcome)
             /\ UNCHANGED <<heap, store, log, pos, cache_invalidated, ti>>

\* graph.py:125-128: force or an invalidated cache: build, no load attempt.
BuildInvalidated ==
    /\ pc = "build"
    /\ BuildUnconditionally(args.force, cache_invalidated)
    /\ _build_image(CurrentImage)
    /\ UNCHANGED <<inputVars, tags, digests, images, targets, resolveVars, results>>

\* graph.py:73 (_load_target_image): the first read of image.is_loaded, which
\* queries the engine unless the answer is cached (docker.py:103-112).
LoadIsLoaded ==
    /\ pc = "build"
    /\ ~BuildUnconditionally(args.force, cache_invalidated)
    /\ LET image == CurrentImage
           target == heap[image].target
       IN IF heap[image].loaded = "None"
          THEN \E present \in StoreChoices(target) :
                  /\ store' = (target :> present) @@ store
                  /\ heap' = [heap EXCEPT ![image].loaded =
                                 IF present = "none" THEN "False" ELSE "True"]
                  /\ ops' = Append(ops, EngineOp("exists", image,
                                 IF present = "none" THEN "False" ELSE "True", present))
                  /\ pc' = IF present = "none" THEN "pull" ELSE "validate"
          ELSE /\ pc' = IF heap[image].loaded = "True" THEN "validate" ELSE "pull"
               /\ UNCHANGED <<store, heap, ops>>
    /\ UNCHANGED <<inputVars, tags, digests, images, targets, resolveVars, results,
                   ti, pos, cache_invalidated, error, log>>

\* graph.py:57-70 (pull_target_image) around DockerImage.pull
\* (docker.py:118-128): success marks the image loaded and pulled; an allowed
\* error is logged and the load attempt goes on with the image absent; any
\* other error propagates.
PullKinds == {"ImageNotFoundError", "ImageAccessError", "OtherError"}

PullTargetImage ==
    /\ pc = "pull"
    /\ LET image == CurrentImage
           target == heap[image].target
       IN \/ \E pulled \in {"good", "bad"} :
                /\ heap' = [heap EXCEPT ![image].loaded = "True", ![image].was_pulled = TRUE]
                /\ store' = (target :> pulled) @@ store
                /\ ops' = Append(ops, EngineOp("pull", image, "ok", store[target]))
                /\ pc' = "validate"
                /\ UNCHANGED <<error, log>>
          \/ \E kind \in PullKinds :
                /\ ops' = Append(ops, EngineOp("pull", image, kind, store[target]))
                /\ IF IsAllowedPullError(kind, options.allowed_pull_errors)
                   THEN /\ log' = Append(log, LogEntry("allowed_pull_error", target, kind))
                        /\ pc' = "load_failed"
                        /\ UNCHANGED error
                   ELSE /\ Raise(kind)
                        /\ UNCHANGED log
                /\ UNCHANGED <<heap, store>>
    /\ UNCHANGED <<inputVars, tags, digests, images, targets, resolveVars, results,
                   ti, pos, cache_invalidated>>

\* Mutant: load_target_image handles every error of the library.
HandlesEveryError(kind) == TRUE

\* graph.py:90: `except E.ImageValidationError`.
HandledByLoad(kind) == kind = "ImageValidationError"

\* What the engine holds of an image when validate lists it: what the run
\* last saw, or nothing, the image having been removed since.
HeldAtValidate(target) == {store[target], "none"}

\* graph.py:79-83 and 85-100: the image is loaded; validate it when
\* validate_image is set (docker.py:130-139). A validation error is re-raised,
\* or logged with the image treated as not loaded; the ImageNotFoundError of
\* _get_docker_image (docker.py:86-97) passes through both handlers.
ValidateTargetImage ==
    /\ pc = "validate"
    /\ LET image == CurrentImage
           target == heap[image].target
       IN IF ~options.validate_image
          THEN /\ Advance(InvalidatesCache(heap[image]))
               /\ UNCHANGED <<ops, log, error, store>>
          ELSE \E held \in HeldAtValidate(target) :
               /\ store' = (target :> held) @@ store
               /\ IF held = "good"
                  THEN /\ ops' = Append(ops, EngineOp("validate", image, "ok", held))
                       /\ Advance(InvalidatesCache(heap[image]))
                       /\ UNCHANGED <<log, error>>
                  ELSE LET kind == IF held = "bad" THEN "ImageValidationError"
                                   ELSE "ImageNotFoundError"
                       IN /\ ops' = Append(ops, EngineOp("validate", image, kind, held))
                          /\ IF HandledByLoad(kind)
                                /\ ~ReraisesValidationError(options.build_on_validate_error)
                             THEN /\ log' = Append(log, LogEntry("validate_error", target, kind))
                                  /\ pc' = "load_failed"
                                  /\ UNCHANGED <<error, ti, pos, cache_invalidated>>
                             ELSE /\ Raise(kind)
                                  /\ UNCHANGED <<log, ti, pos, cache_invalidated>>
    /\ UNCHANGED <<inputVars, factoryVars, targets, resolveVars, results>>

\* graph.py:130-134: the load attempt returned False: build the image.
BuildNotLoaded ==
    /\ pc = "load_failed"
    /\ _build_image(CurrentImage)
    /\ UNCHANGED <<inputVars, tags, digests, images, targets, resolveVars, results>>

Build == BuildInvalidated \/ LoadIsLoaded \/ PullTargetImage \/ ValidateTargetImage
         \/ BuildNotLoaded

\* -------------------------------------------------------------- push phase
\* An engine operation of the push phase as recorded in the history.
PushOp(kind, image, result) ==
    [op |-> kind, image |-> image, target |-> heap[image].target,
     request |-> 0, at |-> pos, after_built |-> FALSE,
     invalidated |-> FALSE, result |-> result, present |-> "good",
     loaded |-> heap[image].loaded, phase |-> pc]

\* The --push lists tried: distinct targets of the registry.
PushLists == {s \in SeqsUpTo(DOMAIN registry, MaxPush) : NoRepeat(s)}

\* Mutant: only the first name is looked up before the loop starts.
LooksUpFirst(push, imgs) == push[1] \in DOMAIN imgs

\* graph.py:168: the list comprehension looks every name up in self.images
\* before the first iteration of the loop.
LooksUpAll(push, imgs) == \A i \in 1..Len(push) : push[i] \in DOMAIN imgs

\* cli.py:149-151 and graph.py:168: build returned; with --push the images of
\* the named targets are looked up (KeyError for a target that has none)
\* before the first push.
PushCall ==
    /\ pc = "built"
    /\ \E push \in PushLists :
          /\ args' = [args EXCEPT !.push = push]
          /\ IF push = <<>>
             THEN pc' = "done" /\ UNCHANGED error
             ELSE IF ~LooksUpAll(push, images)
             THEN Raise("KeyError")
             ELSE pc' = "push" /\ UNCHANGED error
    /\ UNCHANGED <<registry, files, listing, options, engine, environ,
                   factoryVars, targets, resolveVars,
                   buildVars, ti, log, results>>

\* graph.py:169-176: one iteration of push's loop. A loaded image is skipped
\* when it was pulled and not built, else pushed (docker.py:169-176); an image
\* that is not loaded is passed over.
PushKinds == {"ImagePushError", "ImageAccessError"}

PushImage ==
    /\ pc = "push"
    /\ LET image == images[args.push[pos]]
           next == /\ pos' = IF pos < Len(args.push) THEN pos + 1 ELSE 1
                   /\ pc' = IF pos < Len(args.push) THEN "push" ELSE "done"
                   /\ UNCHANGED error
       IN IF heap[image].loaded # "True"
          THEN next /\ UNCHANGED <<ops, log>>
          ELSE IF SkipsPush(heap[image])
          THEN /\ log' = Append(log, LogEntry("skip_push", heap[image].target, ""))
               /\ next
               /\ UNCHANGED ops
          ELSE \E outcome \in PushOutcomes :
                  /\ ops' = Append(ops, PushOp("push", image, outcome))
                  /\ IF outcome = "ok" THEN next ELSE Raise(outcome) /\ UNCHANGED pos
                  /\ UNCHANGED log
    /\ UNCHANGED <<inputVars, factoryVars, targets, resolveVars, results, ti,
                   cache_invalidated, store>>

Push == PushCall \/ PushImage

\* ------------------------------------------------------------ the inputs
\* constants.py defaults of the Config options.
DefaultOptions ==
    [validate_image          |-> TRUE,
     build_on_validate_error |-> TRUE,
     allowed_pull_errors     |-> {"ImageAccessError", "ImageNotFoundError",
                                  "ImageValidationError"},
     prune_after_build       |-> TRUE,
     ignore_files            |-> {},
     hash_algorithm          |-> DEFAULT_HASH_ALGORITHM,
     short_digest_size       |-> DEFAULT_SHORT_DIGEST_SIZE]

DefaultFiles == [p \in Range(AllPaths) |-> "v0"]
DefaultListing == [d \in Directories |-> <<"src/m1.py", "src/m2.py", "src/m3.pyc">>]

Args(requested, force, push) ==
    [targets |-> requested, force |-> force, push |-> push, tags |-> [x \in {} |-> x],
     noop |-> FALSE, help |-> FALSE, raw_tags |-> [i \in 1..Len(requested) |-> ""]]

\* The empty dict.
EmptyMap == [x \in {} |-> x]

\* The state of a run at the given position, nothing done yet.
InitState(reg, fs, lst, opts, a, explicit, start) ==
    /\ registry = reg
    /\ files = fs
    /\ listing = lst
    /\ options = opts
    /\ args = [a EXCEPT !.tags = explicit]
    /\ tags = explicit
    /\ digests = EmptyMap
    /\ heap = <<>>
    /\ images = EmptyMap
    /\ targets = EmptyMap
    /\ pc = start
    /\ ti = 1
    /\ stack = <<>>
    /\ vectors = <<>>
    /\ acc = <<>>
    /\ pos = 1
    /\ cache_invalidated = FALSE
    /\ store = EmptyMap
    /\ engine = EmptyMap
    /\ environ = EmptyMap
    /\ error = "none"
    /\ ops = <<>>
    /\ log = <<>>
    /\ results = <<>>

\* The state after ImageFactory and ImageGraph are constructed (cli.py:141-143).
InitRun(reg, fs, lst, opts, a, explicit) ==
    InitState(reg, fs, lst, opts, a, explicit, "resolve")

\* Registries over three targets with every depends_on list of distinct names
\* up to MaxDeps entries.
TargetNames == {"a", "b", "c"}
DepLists == {s \in SeqsUpTo(TargetNames, MaxDeps) : NoRepeat(s)}
ExhaustiveRegistries ==
    {[t \in TargetNames |-> Target(Dockerfile(t), f[t], <<>>)] : f \in [TargetNames -> DepLists]}

\* tests/test_image_graph.py: test_diamond_graph
Diamond ==
    [t \in {"a", "b", "c", "d"} |->
        Target(Dockerfile(t),
               CASE t = "a" -> <<"b", "c">> [] t = "b" -> <<"d">>
                 [] t = "c" -> <<"d">> [] OTHER -> <<>>,
               <<>>)]

\* tests/test_image_graph.py: test_long_loop
LongLoop ==
    [t \in {"a", "b", "c", "d"} |->
        Target(Dockerfile(t),
               CASE t = "a" -> <<"b">> [] t = "b" -> <<"c">>
                 [] t = "c" -> <<"d">> [] OTHER -> <<"a">>,
               <<>>)]

\* tests/test_image_graph.py: test_fake_app_test_graph
FakeAppTest ==
    [t \in {"test", "app", "app_pkgs", "test_pkgs", "tools", "base"} |->
        Target(Dockerfile(t),
               CASE t = "test" -> <<"app", "test_pkgs">>
                 [] t = "app" -> <<"base", "app_pkgs">>
                 [] t = "app_pkgs" -> <<"tools">>
                 [] t = "test_pkgs" -> <<"tools">>
                 [] t = "tools" -> <<"base">>
                 [] OTHER -> <<>>,
               <<>>)]

\* A registry whose depends_on names a target that is not defined ("zz").
Dangling ==
    [t \in {"a", "b", "c"} |->
        Target(Dockerfile(t),
               CASE t = "a" -> <<"zz", "a">> [] t = "b" -> <<"b", "zz">>
                 [] OTHER -> <<"b">>,
               <<>>)]

\* A registry that lists the same dependency twice.
Repeated ==
    [t \in {"a", "b"} |->
        Target(Dockerfile(t), IF t = "a" THEN <<"b", "b">> ELSE <<>>, <<>>)]

ResolveRegistries ==
    ExhaustiveRegistries \cup {Diamond, LongLoop, FakeAppTest, Dangling, Repeated}

\* One resolve_target_images call per run, from every target of the registry
\* (and, for the dangling registry, from the undefined name).
InitResolve ==
    \E reg \in ResolveRegistries :
        \E t \in DOMAIN reg \cup (IF reg = Dangling THEN {"zz"} ELSE {}) :
            InitRun(reg, DefaultFiles, DefaultListing, DefaultOptions,
                    Args(<<t>>, FALSE, <<>>), EmptyMap)

NextResolve == Resolve

SpecResolve == InitResolve /\ [][NextResolve]_vars

\* The same calls with the configured hash algorithm known to hashlib or not
\* (factory.py:40-46), every step of the call being taken: the program is
\* sequential and nothing else runs.
InitResolveFair ==
    \E reg \in ResolveRegistries :
        \E t \in DOMAIN reg \cup (IF reg = Dangling THEN {"zz"} ELSE {}) :
        \E algorithm \in {DEFAULT_HASH_ALGORITHM, "sha0"} :
            InitRun(reg, DefaultFiles, DefaultListing,
                    [DefaultOptions EXCEPT !.hash_algorithm = algorithm],
                    Args(<<t>>, FALSE, <<>>), EmptyMap)

SpecResolveFair == InitResolveFair /\ [][NextResolve]_vars /\ WF_vars(NextResolve)

\* The registries of the orchestrator runs.
\* tests/test_image_graph.py: abc_graph
Line ==
    [t \in {"a", "b", "c"} |->
        Target(Dockerfile(t),
               CASE t = "a" -> <<"b">> [] t = "b" -> <<"c">> [] OTHER -> <<>>, <<>>)]

\* One target with two dependencies.
Fan ==
    [t \in {"a", "b", "c"} |->
        Target(Dockerfile(t), IF t = "a" THEN <<"b", "c">> ELSE <<>>, <<>>)]

\* A two-target loop beside a target without dependencies.
Loop ==
    [t \in {"a", "b", "c"} |->
        Target(Dockerfile(t),
               CASE t = "a" -> <<"b">> [] t = "b" -> <<"a">> [] OTHER -> <<>>, <<>>)]

RunRegistries == {Line, Fan, Loop, Dangling, Diamond}

\* --target lists: up to MaxRequested distinct names; "zz" is no target. The
\* diamond is requested from its top, and from its two sides in turn.
Requests(reg) ==
    IF reg = Diamond THEN {<<"a">>, <<"b", "c">>}
    ELSE {s \in SeqsUpTo(DOMAIN reg, MaxRequested) : s # <<>> /\ NoRepeat(s)}
         \cup (IF reg \in {Dangling, Loop} THEN {<<"c", "zz">>} ELSE {})

\* Config options tried by the orchestrator runs: every combination of the
\* options of the load attempt, and the defaults without prune_after_build.
RunOptions ==
    {[DefaultOptions EXCEPT !.validate_image = v, !.build_on_validate_error = b,
                            !.allowed_pull_errors = a] :
        v \in BOOLEAN, b \in BOOLEAN,
        a \in {{"ImageNotFoundError"},
               {"ImageAccessError", "ImageNotFoundError", "ImageValidationError"}}}
    \cup {[DefaultOptions EXCEPT !.prune_after_build = FALSE],
          [DefaultOptions EXCEPT !.hash_algorithm = "sha0"]}

\* --target NAME[:TAG] as typed, the tag "" standing for none: no target
\* tagged, target c tagged, or every target given the same tag.
RawTags(requested) ==
    {[i \in 1..Len(requested) |-> ""],
     [i \in 1..Len(requested) |-> IF requested[i] = "c" THEN "v1" ELSE ""],
     [i \in 1..Len(requested) |-> "v1"]}

\* cli.py:89: a tag that an earlier target of the list was given.
DuplicateTag(raw_tags) ==
    \E i, j \in 1..Len(raw_tags) : i < j /\ raw_tags[j] # "" /\ raw_tags[i] = raw_tags[j]

\* cli.py:85-95: options.tags.
ParsedTags(requested, raw_tags) ==
    [t \in {requested[i] : i \in {k \in 1..Len(requested) : raw_tags[k] # ""}} |->
        ExplicitTag(raw_tags[CHOOSE i \in 1..Len(requested) : requested[i] = t])]

\* cli.py:97-98: --dry-run sets force.
ParsedForce(force, noop) == force \/ noop

\* cli.py:78-100 and 141-143: the arguments are parsed, then the factory and
\* the graph are constructed. argparse prints the help and exits with status
\* 0 for --help; a repeated tag exits with status 2.
ParseOptions ==
    /\ pc = "parse"
    /\ IF args.help
       THEN Raise("SystemExit0") /\ UNCHANGED <<args, tags>>
       ELSE IF DuplicateTag(args.raw_tags)
       THEN Raise("SystemExit2") /\ UNCHANGED <<args, tags>>
       ELSE /\ args' = [args EXCEPT !.tags = ParsedTags(args.targets, args.raw_tags),
                                    !.force = ParsedForce(args.force, args.noop)]
            /\ tags' = ParsedTags(args.targets, args.raw_tags)
            /\ pc' = "resolve"
            /\ UNCHANGED error
    /\ UNCHANGED <<registry, files, listing, options, engine, environ,
                   digests, heap, images,
                   targets, ti, resolveVars, buildVars, log, results>>

\* Mutant: the status is 0 however the run ended.
MainExitsZero(raised) == 0

\* cli.py:160-167 (main): the status handed to sys.exit, given what cli
\* raised ("none": it returned). `except Exception` does not catch the
\* SystemExit of argparse, which carries its own status.
main(raised) ==
    CASE raised = "none"        -> 0
      [] raised = "SystemExit0" -> 0
      [] raised = "SystemExit2" -> 2
      [] OTHER                  -> 1

\* One run of the command line driver, from main. With --force the options
\* of the load attempt are never read and stay at their defaults.
Init ==
    \E reg \in RunRegistries : \E requested \in Requests(reg) :
    \E opts \in RunOptions : \E force \in BOOLEAN : \E noop \in BOOLEAN :
    \E raw_tags \in RawTags(requested) : \E help \in BOOLEAN :
        /\ ParsedForce(force, noop) =>
              opts = [DefaultOptions EXCEPT !.prune_after_build = opts.prune_after_build]
        /\ reg = Diamond => opts = DefaultOptions
        /\ (\E i \in 1..Len(raw_tags) : raw_tags[i] # "") =>
              \/ ~HasherAvailable(opts.hash_algorithm)
              \/ /\ reg \in {Line, Diamond} /\ opts = DefaultOptions
                 /\ ~ParsedForce(force, noop)
        /\ help => (reg = Line /\ opts = DefaultOptions /\ ~ParsedForce(force, noop))
        /\ InitState(reg, DefaultFiles, DefaultListing, opts,
                     [Args(requested, force, <<>>) EXCEPT
                         !.noop = noop, !.help = help, !.raw_tags = raw_tags],
                     EmptyMap, "parse")

Next == ParseOptions \/ Resolve \/ Build \/ Push

Spec == Init /\ [][Next]_vars

\* ------------------------------------------------------ the digest runs
\* a -> b -> c; a watches a file, c watches a directory.
WatchLine ==
    [t \in {"a", "b", "c"} |->
        Target(Dockerfile(t),
               CASE t = "a" -> <<"b">> [] t = "b" -> <<"c">> [] OTHER -> <<>>,
               CASE t = "a" -> <<"lib.txt">> [] t = "c" -> <<"src">> [] OTHER -> <<>>)]

\* a -> [b, c]; b watches a directory and a file, c watches the same file.
WatchFan ==
    [t \in {"a", "b", "c"} |->
        Target(Dockerfile(t),
               IF t = "a" THEN <<"b", "c">> ELSE <<>>,
               CASE t = "b" -> <<"src", "lib.txt">> [] t = "c" -> <<"lib.txt">>
                 [] OTHER -> <<>>)]

\* Targets with build_options of their own, and two dependencies whose names
\* differ only in '-' and '_'.
Overrides ==
    [t \in {"a", "b", "c", "x-y", "x_y"} |->
        Target(Dockerfile(t),
               CASE t = "a" -> <<"b", "c">> [] t = "b" -> <<"x-y", "x_y">>
                 [] OTHER -> <<>>,
               IF t = "c" THEN <<"lib.txt">> ELSE <<>>)
        @@ (CASE t = "a" ->
                   [build_options |->
                       [labels    |-> [digest |-> <<"sha256", <<"pinned">>>>,
                                       team |-> <<"sha256", <<"core">>>>],
                        buildargs |-> (BuildArgName(DEFAULT_BUILDARG_PREFIX, "c")
                                          :> ImageName("mirror", ExplicitTag("stable")))
                                      @@ (<<"H", "T", "T", "P">>
                                          :> ImageName("proxy", ExplicitTag("none"))),
                        squash    |-> TRUE,
                        tag       |-> ImageName("elsewhere", ExplicitTag("latest")),
                        target    |-> "stage"]]
              [] t = "c" -> [build_options |-> [path |-> "ctx", labels |-> EmptyMap]]
              [] OTHER -> EmptyMap)]

DigestRegistries == {WatchLine, WatchFan, Loop, Dangling, Overrides}

\* File systems that differ in the contents of four files.
FileSystems ==
    {[DefaultFiles EXCEPT !["lib.txt"] = w, !["src/m1.py"] = x,
                          !["src/m2.py"] = y, !["Dockerfile.c"] = z] :
        w \in Contents, x \in Contents, y \in Contents, z \in Contents}

\* Every order in which the file system may enumerate a directory.
Listings ==
    {[d \in Directories |-> s] :
        s \in {q \in [1..Cardinality(DirFiles("src")) -> DirFiles("src")] : NoRepeat(q)}}

IgnoreSets == {{}, {"src/m3.pyc"}}

\* short_digest_size values tried (the option is not validated) and explicit
\* tags given with --target NAME:TAG.
DigestSizes == {-4, 0, 7, DEFAULT_SHORT_DIGEST_SIZE, HexLength, HexLength + 6}
ExplicitTags == {EmptyMap, "b" :> ExplicitTag("v1"), "a" :> ExplicitTag("v1")}

\* Runs of the resolver over the watched registries: any file contents, any
\* enumeration order, any request list.
InitDigest ==
    \E reg \in DigestRegistries : \E requested \in Requests(reg) \cup {<<"zz">>} :
    \E fs \in FileSystems : \E lst \in Listings : \E ign \in IgnoreSets :
    \E size \in DigestSizes : \E explicit \in ExplicitTags :
        /\ reg \in {Loop, Dangling, Overrides} =>
              (fs = DefaultFiles /\ lst = DefaultListing /\ ign = {})
        /\ requested = <<"zz">> => reg = Dangling
        /\ (size # DEFAULT_SHORT_DIGEST_SIZE \/ explicit # EmptyMap) =>
              (reg = WatchFan /\ lst = DefaultListing /\ ign = {}
               /\ fs \in {DefaultFiles, [DefaultFiles EXCEPT !["lib.txt"] = "v1"]})
        /\ InitRun(reg, fs, lst,
                   [DefaultOptions EXCEPT !.ignore_files = ign, !.short_digest_size = size],
                   Args(requested, FALSE, <<>>), explicit)

NextDigest == Resolve

SpecDigest == InitDigest /\ [][NextDigest]_vars

\* ------------------------------------------------- the ImageFactory alone
\* One call of a public method of the factory as recorded in the history:
\* whether the digests of the target's dependencies were memoized, what the
\* call computed and what it raised.
FactoryCall(kind, target, m) ==
    [op |-> kind, target |-> target,
     ready    |-> DigestReady(registry, digests, target),
     computed |-> m.computed,
     result   |-> IF m.err = "none" THEN "ok" ELSE m.err]

\* What a call leaves in the factory: the memo dicts as the call left them,
\* up to the point it raised, and the log of what it computed.
FactoryReturns(kind, target, m) ==
    /\ tags' = m.tags
    /\ digests' = m.digests
    /\ log' = log \o DigestLogs(m.computed)
    /\ ops' = Append(ops, FactoryCall(kind, target, m))

\* ImageFactory.get_target_digest(target)
FactoryGetTargetDigest ==
    /\ pc = "factory" /\ Len(ops) < MaxFactoryCalls
    /\ \E target \in DOMAIN registry :
          FactoryReturns("get_target_digest", target,
                         get_target_digest(Memo(tags, digests), target))
    /\ UNCHANGED <<inputVars, heap, images, targets, pc, ti, resolveVars, pos,
                   cache_invalidated, store, error, results>>

\* ImageFactory.get_target_tag(target)
FactoryGetTargetTag ==
    /\ pc = "factory" /\ Len(ops) < MaxFactoryCalls
    /\ \E target \in DOMAIN registry :
          FactoryReturns("get_target_tag", target,
                         get_target_tag(Memo(tags, digests), target))
    /\ UNCHANGED <<inputVars, heap, images, targets, pc, ti, resolveVars, pos,
                   cache_invalidated, store, error, results>>

\* ImageFactory.__call__(target): the image is constructed when nothing raised.
FactoryNewImage ==
    /\ pc = "factory" /\ Len(ops) < MaxFactoryCalls
    /\ \E target \in DOMAIN registry :
          LET m == ImageFactory(Memo(tags, digests), target)
          IN /\ FactoryReturns("__call__", target, m)
             /\ heap' = IF m.err = "none" THEN Append(heap, NewImage(m, target)) ELSE heap
    /\ UNCHANGED <<inputVars, images, targets, pc, ti, resolveVars, pos,
                   cache_invalidated, store, error, results>>

\* ImageFactory.__init__ (factory.py:16-27) over a registry without cycles
\* and without undefined names.
FactoryRegistries == {Line, Fan, Diamond, WatchLine}

\* The tags the factory is constructed with: none, or one for target c.
RunTags == {EmptyMap, "c" :> ExplicitTag("v1")}

InitFactory ==
    \E reg \in FactoryRegistries : \E explicit \in RunTags :
        /\ registry = reg
        /\ files = DefaultFiles
        /\ listing = DefaultListing
        /\ options = DefaultOptions
        /\ args = [Args(<<>>, FALSE, <<>>) EXCEPT !.tags = explicit]
        /\ tags = explicit
        /\ digests = EmptyMap
        /\ heap = <<>>
        /\ images = EmptyMap
        /\ targets = EmptyMap
        /\ pc = "factory"
        /\ ti = 1
        /\ stack = <<>>
        /\ vectors = <<>>
        /\ acc = <<>>
        /\ pos = 1
        /\ cache_invalidated = FALSE
        /\ store = EmptyMap
        /\ engine = EmptyMap
        /\ environ = EmptyMap
        /\ error = "none"
        /\ ops = <<>>
        /\ log = <<>>
        /\ results = <<>>

NextFactory == FactoryGetTargetDigest \/ FactoryGetTargetTag \/ FactoryNewImage

SpecFactory == InitFactory /\ [][NextFactory]_vars

\* --------------------------------------------------- one DockerImage alone
\* A decoded entry of a progress stream is the set of its keys.
TransferEntries == {{"status"}, {"status", "progressDetail"}, {"error"}}
BuildEntries == {{"stream"}, {"aux"}, {"error", "errorDetail"}, {"message"}}
TransferStreams == SeqsUpTo(TransferEntries, MaxStream)
BuildStreams == SeqsUpTo(BuildEntries, MaxStream)

\* What a call of the docker client does: it answers (for a streaming call,
\* with the stream), or raises docker.errors.NotFound, another
\* docker.errors.APIError, or an exception that is no APIError.
ApiOutcomes == {"answer", "NotFound", "APIError", "Exception"}

\* Mutant: error entries of a transfer stream are passed over.
TransferIgnoresErrors(log_stream) == "ok"

\* DockerImage._process_transfer_log_stream: raises at the first entry that
\* carries an error key.
RECURSIVE _process_transfer_log_stream(_)
_process_transfer_log_stream(log_stream) ==
    IF log_stream = <<>> THEN "ok"
    ELSE IF "error" \in Head(log_stream) THEN "ImageAccessError"
    ELSE _process_transfer_log_stream(Tail(log_stream))

\* Mutant: only the error key aborts a build.
BuildStreamErrorKeyOnly(log_stream) ==
    IF \E i \in 1..Len(log_stream) : "error" \in log_stream[i]
    THEN "ImageBuildError" ELSE "ok"

\* DockerImage._process_build_log_stream: raises at the first entry that
\* carries an error or a message key.
RECURSIVE _process_build_log_stream(_)
_process_build_log_stream(log_stream) ==
    IF log_stream = <<>> THEN "ok"
    ELSE IF {"error", "message"} \cap Head(log_stream) # {} THEN "ImageBuildError"
    ELSE _process_build_log_stream(Tail(log_stream))

\* DockerImage.pull: what the call raises ("ok": nothing).
pull(api, log_stream) ==
    CASE api = "NotFound"  -> "ImageNotFoundError"
      [] api = "APIError"  -> "ImageAccessError"
      [] api = "Exception" -> "Exception"
      [] OTHER             -> _process_transfer_log_stream(log_stream)

\* DockerImage.build: what the call raises.
build(api, log_stream) ==
    CASE api \in {"NotFound", "APIError"} -> "ImageBuildError"
      [] api = "Exception"                -> "Exception"
      [] OTHER                            -> _process_build_log_stream(log_stream)

\* DockerImage.push: what the call raises.
push(api, log_stream) ==
    CASE api \in {"NotFound", "APIError"} -> "ImagePushError"
      [] api = "Exception"                -> "Exception"
      [] OTHER                            -> _process_transfer_log_stream(log_stream)

\* Mutant: a successful build sets was_built and leaves _loaded alone.
BuildSuccessFlagOnly(image) == [image EXCEPT !.was_built = TRUE]

\* DockerImage._pull_success and _build_success.
_pull_success(image) == [image EXCEPT !.loaded = "True", !.was_pulled = TRUE]
_build_success(image) == [image EXCEPT !.was_built = TRUE, !.loaded = "True"]

\* DockerImage._get_docker_image: the engine lists an image of that name.
_get_docker_image(name, eng) == name \in DOMAIN eng

\* dict.get: the value of the label, None when the image has no such label.
LabelGet(labels, name) == IF name \in DOMAIN labels THEN labels[name] ELSE "None"

\* Mutant: only the target label is compared.
ValidateTargetLabelOnly(image, eng) ==
    IF ~_get_docker_image(image.target, eng) THEN "ImageNotFoundError"
    ELSE IF "target" \in DOMAIN image.labels
            /\ LabelGet(eng[image.target], "target") # image.labels["target"]
    THEN "ImageValidationError" ELSE "ok"

\* DockerImage.validate: what the call raises.
validate(image, eng) ==
    IF ~_get_docker_image(image.target, eng) THEN "ImageNotFoundError"
    ELSE IF \E name \in DOMAIN image.labels :
               LabelGet(eng[image.target], name) # image.labels[name]
    THEN "ImageValidationError" ELSE "ok"

\* The flags of an image.
Flags(image) ==
    [loaded |-> image.loaded, was_pulled |-> image.was_pulled, was_built |-> image.was_built]

\* Mutant: the answer of the engine is never reused.
IsCachedNever(image) == FALSE

\* docker.py:105: `if self._loaded is None`, negated.
IsCached(image) == image.loaded # "None"

\* One method call as recorded in the history of a single-image run: what
\* the client did, what the stream carried, whether the call listed the
\* images of the repo, what the engine held, the flags before and after, and
\* what the call raised (for is_loaded: returned).
Call(kind, api, log_stream, result, after) ==
    [op |-> kind, api |-> api,
     error_entry   |-> \E i \in 1..Len(log_stream) : "error" \in log_stream[i],
     message_entry |-> \E i \in 1..Len(log_stream) : "message" \in log_stream[i],
     listed   |-> kind \in {"validate", "remove"}
                  \/ (kind = "is_loaded" /\ ~IsCached(heap[1])),
     found    |-> heap[1].target \in DOMAIN engine,
     reported |-> IF heap[1].target \in DOMAIN engine THEN engine[heap[1].target]
                  ELSE EmptyMap,
     before |-> Flags(heap[1]), after |-> Flags(after), result |-> result]

\* Label maps: what build_options["labels"] expects and what an image held
\* by the engine reports.
ExpectedLabels ==
    {EmptyMap, [target |-> "a"], [target |-> "a", digest |-> "d1"]}
ReportedLabels ==
    {EmptyMap, [target |-> "a"], [target |-> "a", digest |-> "d1"],
     [target |-> "a", digest |-> "d2"], [target |-> "a", digest |-> "d1", extra |-> "x"]}

ImageVars == <<heap, engine, ops>>
OtherThanImage == <<registry, files, listing, options, args, tags, digests, images, targets,
                    pc, ti, stack, vectors, acc, pos, cache_invalidated, store, error,
                    log, results, environ>>

\* The is_loaded property: the first read asks the engine and caches the
\* answer; an APIError of the listing is not caught.
ImageIsLoaded ==
    /\ pc = "image" /\ Len(ops) < MaxCalls
    /\ \E api \in {"answer", "APIError"} :
          LET found == _get_docker_image(heap[1].target, engine)
              result == IF IsCached(heap[1]) THEN heap[1].loaded
                        ELSE IF api = "APIError" THEN "APIError"
                        ELSE IF found THEN "True" ELSE "False"
              after == IF ~IsCached(heap[1]) /\ api = "answer"
                       THEN [heap[1] EXCEPT !.loaded = result] ELSE heap[1]
          IN /\ IsCached(heap[1]) => api = "answer"
             /\ heap' = [heap EXCEPT ![1] = after]
             /\ ops' = Append(ops, Call("is_loaded", api, <<>>, result, after))
    /\ UNCHANGED <<engine, OtherThanImage>>

\* DockerImage.pull; a pull that succeeds leaves an image in the engine.
ImagePull ==
    /\ pc = "image" /\ Len(ops) < MaxCalls
    /\ \E api \in ApiOutcomes : \E log_stream \in TransferStreams :
       \E pulled \in ReportedLabels :
          LET result == pull(api, log_stream)
              after == IF result = "ok" THEN _pull_success(heap[1]) ELSE heap[1]
          IN /\ api # "answer" => log_stream = <<>>
             /\ heap' = [heap EXCEPT ![1] = after]
             /\ engine' = IF result = "ok" THEN (heap[1].target :> pulled) @@ engine
                           ELSE engine
             /\ ops' = Append(ops, Call("pull", api, log_stream, result, after))
    /\ UNCHANGED OtherThanImage

\* DockerImage.validate
ImageValidate ==
    /\ pc = "image" /\ Len(ops) < MaxCalls
    /\ \E api \in {"answer", "APIError"} :
          LET result == IF api = "APIError" THEN "APIError" ELSE validate(heap[1], engine)
          IN ops' = Append(ops, Call("validate", api, <<>>, result, heap[1]))
    /\ UNCHANGED <<heap, engine, OtherThanImage>>

\* DockerImage.build; a build that succeeds leaves an image with the labels
\* of the build options in the engine.
ImageBuild ==
    /\ pc = "image" /\ Len(ops) < MaxCalls
    /\ \E api \in ApiOutcomes : \E log_stream \in BuildStreams :
          LET result == build(api, log_stream)
              after == IF result = "ok" THEN _build_success(heap[1]) ELSE heap[1]
          IN /\ api # "answer" => log_stream = <<>>
             /\ heap' = [heap EXCEPT ![1] = after]
             /\ engine' = IF result = "ok" THEN (heap[1].target :> heap[1].labels) @@ engine
                           ELSE engine
             /\ ops' = Append(ops, Call("build", api, log_stream, result, after))
    /\ UNCHANGED OtherThanImage

\* DockerImage.push
ImagePush ==
    /\ pc = "image" /\ Len(ops) < MaxCalls
    /\ \E api \in ApiOutcomes : \E log_stream \in TransferStreams :
          LET result == push(api, log_stream)
          IN /\ api # "answer" => log_stream = <<>>
             /\ ops' = Append(ops, Call("push", api, log_stream, result, heap[1]))
    /\ UNCHANGED <<heap, engine, OtherThanImage>>

\* DockerImage.remove: the engine drops the image; _loaded is not touched.
ImageRemove ==
    /\ pc = "image" /\ Len(ops) < MaxCalls
    /\ LET found == _get_docker_image(heap[1].target, engine)
       IN /\ engine' = [n \in DOMAIN engine \ {heap[1].target} |-> engine[n]]
          /\ ops' = Append(ops, Call("remove", "answer", <<>>,
                                     IF found THEN "ok" ELSE "ImageNotFoundError", heap[1]))
    /\ UNCHANGED <<heap, OtherThanImage>>

\* DockerImage.__init__ for a target "a" with the given expected labels,
\* beside an engine that holds an image of that name, only an image of the
\* same repo under another tag ("a-other"), or none.
InitImage ==
    \E expected \in ExpectedLabels :
    \E held \in {EmptyMap, "a-other" :> [target |-> "a"]}
                \cup {("a" :> l) : l \in ReportedLabels} :
        /\ registry = [t \in {"a"} |-> Target(Dockerfile(t), <<>>, <<>>)]
        /\ files = DefaultFiles
        /\ listing = DefaultListing
        /\ options = DefaultOptions
        /\ args = Args(<<"a">>, FALSE, <<>>)
        /\ tags = EmptyMap
        /\ digests = EmptyMap
        /\ heap = <<[target |-> "a", tag |-> ExplicitTag("t"),
                     build_options |-> [labels |-> expected], labels |-> expected,
                     buildargs |-> EmptyMap, loaded |-> "None",
                     was_pulled |-> FALSE, was_built |-> FALSE]>>
        /\ images = ("a" :> 1)
        /\ targets = EmptyMap
        /\ pc = "image"
        /\ ti = 1
        /\ stack = <<>>
        /\ vectors = <<>>
        /\ acc = <<>>
        /\ pos = 1
        /\ cache_invalidated = FALSE
        /\ store = EmptyMap
        /\ engine = held
        /\ environ = EmptyMap
        /\ error = "none"
        /\ ops = <<>>
        /\ log = <<>>
        /\ results = <<>>

NextImage == ImageIsLoaded \/ ImagePull \/ ImageValidate \/ ImageBuild \/ ImagePush
             \/ ImageRemove

SpecImage == InitImage /\ [][NextImage]_vars

\* -------------------------------------------------------------- envfile
\* constants.py:28-30 and envfile.py:10: the variable, the file written from
\* it and the marker file of a container.
ENV_KEY == "REGISTRY_AUTH"
DestPath == "/auth.json"
DockerenvPath == "/.dockerenv"
\* The names tempfile.mkstemp hands out in the directory of the destination.
TempPaths == <<"/tmp1", "/tmp2", "/tmp3">>

\* The base64 alphabet as far as the values below use it (character ->
\* sextet), the padding character, and a character outside ASCII.
Base64Alphabet ==
    ("A" :> 0) @@ ("B" :> 1) @@ ("D" :> 3) @@ ("I" :> 8) @@ ("J" :> 9) @@ ("Q" :> 16)
    @@ ("U" :> 20)
BASE64_PAD == "="
NonAscii == {"U+00E9"}

\* The bytes of one group of two, three or four sextets.
GroupBytes(quad) ==
    <<quad[1] * 4 + quad[2] \div 16>>
    \o (IF Len(quad) >= 3 THEN <<(quad[2] % 16) * 16 + quad[3] \div 4>> ELSE <<>>)
    \o (IF Len(quad) >= 4 THEN <<(quad[3] % 4) * 64 + quad[4]>> ELSE <<>>)

\* binascii.a2b_base64 without strict mode: characters outside the alphabet
\* are skipped, padding that completes a group ends the data, and data that
\* ends inside a group is an error.
RECURSIVE a2b_base64(_, _, _, _)
a2b_base64(s, quad, pads, out) ==
    IF s = <<>>
    THEN IF quad = <<>> THEN [raised |-> "none", bytes |-> out]
         ELSE [raised |-> "binascii.Error", bytes |-> <<>>]
    ELSE IF Head(s) = BASE64_PAD
    THEN IF Len(quad) >= 2 /\ Len(quad) + pads + 1 >= 4
         THEN [raised |-> "none", bytes |-> out \o GroupBytes(quad)]
         ELSE a2b_base64(Tail(s), quad, IF Len(quad) >= 2 THEN pads + 1 ELSE pads, out)
    ELSE IF Head(s) \notin DOMAIN Base64Alphabet
    THEN a2b_base64(Tail(s), quad, pads, out)
    ELSE LET q == Append(quad, Base64Alphabet[Head(s)])
         IN IF Len(q) = 4 THEN a2b_base64(Tail(s), <<>>, 0, out \o GroupBytes(q))
            ELSE a2b_base64(Tail(s), q, 0, out)

\* base64.b64decode of a str: a character outside ASCII raises ValueError.
b64decode(s) ==
    IF \E i \in 1..Len(s) : s[i] \in NonAscii
    THEN [raised |-> "ValueError", bytes |-> <<>>]
    ELSE a2b_base64(s, <<>>, 0, <<>>)

\* How the file system answers _commit: every step succeeds, or mkstemp, the
\* write to the temporary file, or the rename fails with an OSError.
CommitOutcomes == {"ok", "mkstemp", "write", "rename"}

\* envfile._commit: the content goes to a fresh temporary file that is then
\* renamed over the destination. A failed write leaves a part of the content
\* in the temporary file.
_commit(fs, dest_path, content, outcome) ==
    LET temp_path == TempPaths[CHOOSE i \in 1..Len(TempPaths) :
                                  /\ TempPaths[i] \notin DOMAIN fs
                                  /\ \A j \in 1..(i - 1) : TempPaths[j] \in DOMAIN fs]
    IN CASE outcome = "mkstemp" -> [files |-> fs, raised |-> "OSError"]
         [] outcome = "write" ->
               [files |-> (temp_path :> SubSeq(content, 1, Len(content) - 1)) @@ fs,
                raised |-> "OSError"]
         [] outcome = "rename" ->
               [files |-> (temp_path :> content) @@ fs, raised |-> "OSError"]
         [] OTHER -> [files |-> (dest_path :> content) @@ fs, raised |-> "none"]

\* Mutant: only the decode error is handled.
HandlesDecodeErrorOnly(kind) == kind = "binascii.Error"

\* envfile.py:25-32: the except clauses of _write catch every Exception.
HandledByWrite(kind) == kind \in {"binascii.Error", "ValueError", "OSError"}

\* envfile._write: what it leaves in the file system, what it logs and what
\* escapes it.
_write(fs, env, env_key, dest_path, outcome) ==
    LET decoded == b64decode(IF env_key \in DOMAIN env THEN env[env_key] ELSE <<>>)
        done == IF decoded.raised # "none" THEN [files |-> fs, raised |-> decoded.raised]
                ELSE IF decoded.bytes # <<>>
                THEN _commit(fs, dest_path, decoded.bytes, outcome)
                ELSE [files |-> fs, raised |-> "none"]
    IN [files   |-> done.files,
        logged  |-> IF done.raised # "none" THEN done.raised
                    ELSE IF decoded.bytes # <<>> THEN "Writing env" ELSE "Not writing empty env",
        raised  |-> IF HandledByWrite(done.raised) THEN "none" ELSE done.raised]

\* envfile.write
write(fs, env, env_key, dest_path, dockerenv_path, outcome) ==
    IF dockerenv_path \in DOMAIN fs /\ env_key \in DOMAIN env
    THEN _write(fs, env, env_key, dest_path, outcome)
    ELSE [files |-> fs, logged |-> "", raised |-> "none"]

\* One call of envfile.write as recorded in the history.
WriteCall(outcome, before, r) ==
    [op |-> "write", outcome |-> outcome, before |-> before, after |-> r.files,
     logged |-> r.logged, raised |-> r.raised]

\* cli.py:123-125: envfile.write(env_key, dest_path), with whatever the file
\* system does to _commit.
EnvfileWrite ==
    /\ pc = "envfile" /\ Len(ops) < MaxWrites
    /\ \E outcome \in CommitOutcomes :
          LET r == write(files, environ, ENV_KEY, DestPath, DockerenvPath, outcome)
          IN /\ files' = r.files
             /\ ops' = Append(ops, WriteCall(outcome, files, r))
             /\ IF r.raised = "none" THEN UNCHANGED <<pc, error>> ELSE Raise(r.raised)
    /\ UNCHANGED <<registry, listing, options, args, engine, environ, factoryVars, targets,
                   ti, resolveVars, pos, cache_invalidated, store, log, results>>

\* Values of the variable: empty, text that decodes to one, two and three
\* bytes, text with a character outside the alphabet inside it, text of such
\* characters only, text that ends inside a group (tests/test_envfile.py:26),
\* and text outside ASCII.
EnvValues ==
    {<<>>, <<"Q", "Q", "=", "=">>, <<"Q", "U", "I", "=">>, <<"Q", "U", "J", "D">>,
     <<"Q", "!", "Q", "=", "=">>, <<"!", "!">>, <<"A", "A", "A", "A", "A", "A", "A">>,
     <<"Q", "Q", "=">>, <<"U+00E9">>}

\* The process environment, the marker file and the destination before the
\* first call: the variable unset or set, the marker missing or there, the
\* destination missing or holding older content.
InitEnvfile ==
    \E env \in {EmptyMap} \cup {(ENV_KEY :> v) : v \in EnvValues} :
    \E marker \in {EmptyMap, DockerenvPath :> <<>>} :
    \E dest \in {EmptyMap, DestPath :> <<1, 2>>} :
        /\ registry = EmptyMap
        /\ files = marker @@ dest
        /\ listing = EmptyMap
        /\ options = DefaultOptions
        /\ args = Args(<<>>, FALSE, <<>>)
        /\ tags = EmptyMap
        /\ digests = EmptyMap
        /\ heap = <<>>
        /\ images = EmptyMap
        /\ targets = EmptyMap
        /\ pc = "envfile"
        /\ ti = 1
        /\ stack = <<>>
        /\ vectors = <<>>
        /\ acc = <<>>
        /\ pos = 1
        /\ cache_invalidated = FALSE
        /\ store = EmptyMap
        /\ engine = EmptyMap
        /\ environ = env
        /\ error = "none"
        /\ ops = <<>>
        /\ log = <<>>
        /\ results = <<>>

NextEnvfile == EnvfileWrite

SpecEnvfile == InitEnvfile /\ [][NextEnvfile]_vars

\* ------------------------------------------------------ graph vocabulary
Succ(reg, t) == IF t \in DOMAIN reg THEN Range(reg[t].depends_on) ELSE {}

RECURSIVE Closure(_, _)
Closure(reg, S) ==
    LET S2 == S \cup UNION {Succ(reg, x) : x \in S}
    IN IF S2 = S THEN S ELSE Closure(reg, S2)

\* The transitive dependencies of t.
Descendants(reg, t) == Closure(reg, Succ(reg, t))

\* t lies on a cycle (a self-loop included).
OnCycle(reg, t) == t \in Descendants(reg, t)

\* Everything t reaches is a target of the registry, and none of it lies on a
\* cycle.
WellFormedFrom(reg, t) == ({t} \cup Descendants(reg, t)) \subseteq DOMAIN reg
AcyclicFrom(reg, t) == \A x \in {t} \cup Descendants(reg, t) : ~OnCycle(reg, x)

\* Depth-first post-order with declaration order, each target once.
RECURSIVE PostOrder(_, _, _)
RECURSIVE PostOrderAll(_, _, _)
PostOrder(reg, t, seen) ==
    LET below == PostOrderAll(reg, DependsOn(reg, t), seen)
    IN IF InSeq(t, below) THEN below ELSE Append(below, t)
PostOrderAll(reg, deps, seen) ==
    IF deps = <<>> THEN seen
    ELSE PostOrderAll(reg, Tail(deps), PostOrder(reg, Head(deps), seen))

\* ------------------------------------------------------------------ claims
\* C1: for an acyclic graph (every name it reaches being a target), resolving
\* t returns, with no cyclic-dependency error, a list holding t and each
\* transitive dependency exactly once, every dependency before its
\* dependents, t last, dependencies visited in declaration order; the
\* diamond a->[b,c], b->d, c->d yields [d,b,c,a].
C1_ResolveOrder ==
    \A k \in 1..Len(results) :
        LET r == results[k]
        IN (WellFormedFrom(registry, r.target) /\ AcyclicFrom(registry, r.target)) =>
            /\ r.status = "ok"
            /\ Range(r.order) = {r.target} \cup Descendants(registry, r.target)
            /\ NoRepeat(r.order)
            /\ Last(r.order) = r.target
            /\ \A i, j \in 1..Len(r.order) :
                   r.order[j] \in Succ(registry, r.order[i]) => j < i
            /\ r.order = PostOrder(registry, r.target, <<>>)
            /\ (registry = Diamond /\ r.target = "a") => r.order = <<"d", "b", "c", "a">>

C1_Witness ==
    /\ registry = Diamond
    /\ results = <<Outcome("a", "ok", <<"d", "b", "c", "a">>)>>

OpsOf(request, at) == {i \in 1..Len(ops) : ops[i].request = request /\ ops[i].at = at}
LoadOps == {"exists", "pull", "validate"}
InBuildPhase == pc \in {"build", "pull", "validate", "load_failed"}
Logged(event, target, kind) == InSeq(LogEntry(event, target, kind), log)

\* C3: no digest is computed before the digests of the target's declared
\* dependencies: the read of self.digests[dependency] never fails, every
\* digest in the log comes after the digests of its dependencies, and the
\* memo holds the dependencies of every target it holds.
C3_DigestAfterDependencies ==
    /\ \A k \in 1..Len(results) : results[k].status # "KeyError"
    /\ \A i \in 1..Len(log) :
          log[i].event = "digest" =>
              \A d \in Succ(registry, log[i].target) :
                  \E j \in 1..(i - 1) : log[j] = LogEntry("digest", d, "")
    /\ \A t \in DOMAIN digests : Succ(registry, t) \subseteq DOMAIN digests

C3_Witness ==
    /\ registry = Line
    /\ Logged("digest", "a", "")
    /\ {"a", "b", "c"} \subseteq DOMAIN digests

\* C4: once a member of the chain has been built, every later member of that
\* chain gets no existence check, no pull and no validate, only a build (and
\* its prune), also when it is present in the engine's store.
C4_InvalidationPropagates ==
    /\ \A i \in 1..Len(ops) :
          (ops[i].request > 0 /\ ops[i].after_built) => ops[i].op \in {"build", "prune"}
    /\ InBuildPhase =>
          \A j \in 1..(pos - 1) :
              (\E i \in 1..(j - 1) : heap[CurrentChain[i]].was_built) =>
                  /\ heap[CurrentChain[j]].was_built
                  /\ \E k \in OpsOf(ti, j) :
                        /\ ops[k].op = "build" /\ ops[k].result = "ok"
                        /\ ops[k].image = CurrentChain[j]

C4_Witness ==
    /\ ~args.force
    /\ \E k \in 1..Len(ops) :
          /\ ops[k].op = "build" /\ ops[k].result = "ok"
          /\ ops[k].after_built
          /\ ops[k].present = "good"
          /\ \A i \in OpsOf(ops[k].request, ops[k].at) : ops[i].op \notin LoadOps

\* C5 (as claimed): when the image of a requested target is loaded and
\* validates, no pull and no build is issued for any other member of its chain.
C5_NoDependencyWork ==
    \A k \in 1..Len(args.targets) :
        (\E i \in 1..Len(ops) :
            /\ ops[i].request = k /\ ops[i].target = args.targets[k]
            /\ ops[i].op = "validate" /\ ops[i].result = "ok")
        => \A j \in 1..Len(ops) :
              (ops[j].request = k /\ ops[j].target # args.targets[k])
                  => ops[j].op \notin {"pull", "build"}

\* C6: a failed pull whose kind is allowed is logged and not raised, the image
\* stays not loaded and not pulled and the next engine operation is its
\* build; a failed pull of any other kind ends the run with that error, and
\* no operation follows it.
C6_PullErrors ==
    \A i \in 1..Len(ops) :
        (ops[i].op = "pull" /\ ops[i].result # "ok") =>
            IF ops[i].result \in options.allowed_pull_errors
            THEN /\ Logged("allowed_pull_error", ops[i].target, ops[i].result)
                 /\ ~heap[ops[i].image].was_pulled
                 /\ i = Len(ops) =>
                       /\ pc = "load_failed" /\ error = "none"
                       /\ heap[ops[i].image].loaded = "False"
                 /\ i < Len(ops) =>
                       /\ ops[i + 1].op = "build"
                       /\ ops[i + 1].image = ops[i].image
                       /\ ops[i + 1].request = ops[i].request
                       /\ ops[i + 1].at = ops[i].at
            ELSE /\ i = Len(ops)
                 /\ pc = "failed" /\ error = ops[i].result
                 /\ ~Logged("allowed_pull_error", ops[i].target, ops[i].result)

C6_Witness ==
    /\ \E i \in 1..(Len(ops) - 1) :
          /\ ops[i].op = "pull" /\ ops[i].result = "ImageNotFoundError"
          /\ ops[i + 1].op = "build" /\ ops[i + 1].result = "ok"
          /\ heap[ops[i].image].was_built /\ ~heap[ops[i].image].was_pulled
    /\ options.allowed_pull_errors = {"ImageNotFoundError"}

\* C7: an ImageValidationError of a loaded image is, with
\* build_on_validate_error, logged and not raised, and the image is built
\* exactly once in that step; without it the error ends the run and no build
\* follows.
C7_ValidationErrors ==
    \A i \in 1..Len(ops) :
        (ops[i].op = "validate" /\ ops[i].result = "ImageValidationError") =>
            IF options.build_on_validate_error
            THEN /\ Logged("validate_error", ops[i].target, ops[i].result)
                 /\ i = Len(ops) => (pc = "load_failed" /\ error = "none")
                 /\ i < Len(ops) =>
                       /\ ops[i + 1].op = "build"
                       /\ ops[i + 1].image = ops[i].image
                       /\ Cardinality({k \in OpsOf(ops[i].request, ops[i].at) :
                                          ops[k].op = "build"}) = 1
            ELSE /\ i = Len(ops)
                 /\ pc = "failed" /\ error = "ImageValidationError"

C7_Witness ==
    \E i \in 1..(Len(ops) - 1) :
        /\ ops[i].op = "validate" /\ ops[i].result = "ImageValidationError"
        /\ ops[i + 1].op = "build" /\ ops[i + 1].result = "ok"
        /\ heap[ops[i].image].was_pulled /\ heap[ops[i].image].was_built

\* C8: every target push has handled is either skipped (it was pulled and
\* not built) or pushed, never both and never neither.
Handled(j) ==
    \/ pc = "done" /\ args.push # <<>>
    \/ pc = "push" /\ j < pos
    \/ pc = "failed" /\ error \in PushKinds /\ j <= pos

PushesOf(target) == {i \in 1..Len(ops) : ops[i].op = "push" /\ ops[i].target = target}
SkipsOf(target) == {i \in 1..Len(log) : log[i] = LogEntry("skip_push", target, "")}

C8_PushOrSkip ==
    \A j \in 1..Len(args.push) :
        Handled(j) =>
            LET image == heap[images[args.push[j]]]
            IN IF image.was_pulled /\ ~image.was_built
               THEN /\ Cardinality(SkipsOf(image.target)) = 1
                    /\ PushesOf(image.target) = {}
               ELSE /\ Cardinality(PushesOf(image.target)) = 1
                    /\ SkipsOf(image.target) = {}

C8_Witness ==
    /\ pc = "done" /\ Len(args.push) = 2
    /\ LET first == heap[images[args.push[1]]]
           second == heap[images[args.push[2]]]
       IN /\ first.was_pulled /\ ~first.was_built
          /\ second.was_built
          /\ PushesOf(first.target) = {}
          /\ Cardinality(PushesOf(second.target)) = 1

\* The digest of target t in a run that resolves only t, on file system fs
\* with every directory enumerated in sorted order.
RECURSIVE CanonicalDigest(_, _, _, _)
CanonicalDigest(reg, fs, ignore_files, t) ==
    _get_target_digest(reg, fs, DefaultListing, ignore_files,
                       [d \in Succ(reg, t) |-> CanonicalDigest(reg, fs, ignore_files, d)], t)

CanonicalTag(reg, fs, opts, t) ==
    ShortDigest(CanonicalDigest(reg, fs, opts.ignore_files, t), opts.short_digest_size)

\* C9: the digest and the tag a run memoizes for a target depend on the
\* registry and the contents of the files only: they equal the digest and
\* the tag of the run that resolves that target alone under the sorted
\* enumeration, whatever was requested, in whatever order, and however the
\* watched directory was enumerated.
C9_DigestDeterministic ==
    /\ \A t \in DOMAIN digests :
          digests[t] = CanonicalDigest(registry, files, options.ignore_files, t)
    /\ \A t \in DOMAIN tags \ DOMAIN args.tags :
          tags[t] = CanonicalTag(registry, files, options, t)

C9_Witness ==
    /\ registry = WatchFan
    /\ args.targets = <<"c", "b">>
    /\ listing["src"] = <<"src/m3.pyc", "src/m2.py", "src/m1.py">>
    /\ files["src/m1.py"] # files["src/m2.py"]
    /\ {"b", "c"} \subseteq DOMAIN tags
    /\ pc = "build"

\* The files whose contents enter the digest of target d itself.
Watched(reg, lst, ignore_files, d) == Range(_get_target_watch_files(reg, lst, ignore_files, d))

\* C10: replacing the content of one file changes the digest and the tag cut
\* from it (when the tag is not empty) of a target exactly when the file is watched by the target or by one of its
\* transitive dependencies.
C10_ChangePropagates ==
    \A t \in DOMAIN digests : \A p \in Range(AllPaths) : \A x \in Contents \ {files[p]} :
        LET changed  == [files EXCEPT ![p] = x]
            affected == \E d \in {t} \cup Descendants(registry, t) :
                            p \in Watched(registry, listing, options.ignore_files, d)
        IN /\ (CanonicalDigest(registry, changed, options.ignore_files, t) # digests[t])
                 <=> affected
           /\ (t \in DOMAIN tags \ DOMAIN args.tags /\ tags[t].size > 0) =>
                 ((CanonicalTag(registry, changed, options, t) # tags[t]) <=> affected)

C10_Witness ==
    /\ registry = WatchFan
    /\ {"a", "b", "c"} \subseteq DOMAIN digests
    /\ files["src/m1.py"] = "v0"
    /\ LET changed == [files EXCEPT !["src/m1.py"] = "v1"]
           ign == options.ignore_files
       IN /\ CanonicalDigest(registry, changed, ign, "b") # digests["b"]
          /\ CanonicalDigest(registry, changed, ign, "a") # digests["a"]
          /\ CanonicalDigest(registry, changed, ign, "c") = digests["c"]

\* The characters of a hex digest and of a tag cut from one; s[:size].
HexChars(digest) == [i \in 1..HexLength |-> <<digest, i>>]
TagChars(tag) == [i \in 1..tag.size |-> <<tag.prefix_of, i>>]
PySlice(s, size) == SubSeq(s, 1, SliceLength(Len(s), size))
IsPrefix(s1, s2) == Len(s1) <= Len(s2) /\ SubSeq(s2, 1, Len(s1)) = s1

\* C11: the tag of a target is the explicit tag when one was given for it;
\* otherwise, for a short_digest_size that is not negative, it is the first
\* short_digest_size characters of the target's digest (all of them when the
\* size exceeds the digest), and for sizes 0 <= n <= m the tag cut with n is
\* a prefix of the tag cut with m. The image carries that tag.
C11_TagOfTarget ==
    /\ \A t \in DOMAIN tags :
          IF t \in DOMAIN args.tags THEN tags[t] = args.tags[t]
          ELSE /\ t \in DOMAIN digests
               /\ tags[t].prefix_of = digests[t]
               /\ options.short_digest_size >= 0 =>
                     /\ TagChars(tags[t]) =
                           PySlice(HexChars(digests[t]), options.short_digest_size)
                     /\ Len(TagChars(tags[t])) =
                           (IF options.short_digest_size < HexLength
                            THEN options.short_digest_size ELSE HexLength)
               /\ \A n, m \in DigestSizes :
                     (0 <= n /\ n <= m) =>
                         IsPrefix(TagChars(ShortDigest(digests[t], n)),
                                  TagChars(ShortDigest(digests[t], m)))
    /\ \A t \in DOMAIN images : heap[images[t]].tag = tags[t]

C11_Witness ==
    /\ args.tags = ("b" :> ExplicitTag("v1"))
    /\ options.short_digest_size = 7
    /\ {"a", "b", "c"} \subseteq DOMAIN images
    /\ tags["b"] = ExplicitTag("v1")
    /\ Len(TagChars(tags["a"])) = 7

\* Errors of the configuration, raised while the requested targets are
\* resolved.
ConfigurationErrors == {"TargetNotFoundError", "TargetCyclicError", "HashAlgorithmNotFound"}

\* C12: no engine operation is issued before every requested target is
\* resolved: while a target is left to resolve, and after a resolution has
\* failed (target not found, cyclic dependency, hash algorithm not found), the
\* history of engine operations is empty.
C12_ResolveBeforeEngine ==
    /\ pc = "resolve" => ops = <<>>
    /\ (\E k \in 1..Len(results) : results[k].status # "ok") =>
          /\ ops = <<>>
          /\ pc = "failed"
          /\ results[Len(results)].status \in ConfigurationErrors
          /\ error = results[Len(results)].status
    /\ ops # <<>> =>
          /\ Len(results) = Len(args.targets)
          /\ \A k \in 1..Len(results) :
                results[k] = Outcome(args.targets[k], "ok",
                                     ChainTargets(targets[args.targets[k]]))

C12_Witness ==
    /\ registry = Loop
    /\ args.targets = <<"c", "a">>
    /\ results = <<Outcome("c", "ok", <<"c">>), Outcome("a", "TargetCyclicError", <<>>)>>
    /\ pc = "failed"
    /\ ops = <<>>

\* The successful operations of one kind issued for a target.
SucceededFor(kind, target) ==
    {k \in 1..Len(ops) : ops[k].op = kind /\ ops[k].target = target /\ ops[k].result = "ok"}

\* C13: no two instances carry the same target name; every member of every
\* chain, and every image an engine operation was issued for, is the one
\* instance self.images holds for its target; so the was_built and was_pulled
\* flags of that instance tell whether a build or a pull of the target
\* succeeded anywhere in the run.
C13_OneInstancePerTarget ==
    /\ \A i, j \in 1..Len(heap) : heap[i].target = heap[j].target => i = j
    /\ \A t \in DOMAIN images : heap[images[t]].target = t
    /\ \A t \in DOMAIN targets : \A i \in 1..Len(targets[t]) :
          /\ heap[targets[t][i]].target \in DOMAIN images
          /\ targets[t][i] = images[heap[targets[t][i]].target]
    /\ \A k \in 1..Len(ops) : ops[k].image = images[ops[k].target]
    /\ \A t \in DOMAIN images :
          /\ heap[images[t]].was_built <=> SucceededFor("build", t) # {}
          /\ heap[images[t]].was_pulled <=> SucceededFor("pull", t) # {}

C13_Witness ==
    /\ registry = Line
    /\ args.targets = <<"b", "a">>
    /\ pc = "done" /\ args.push = <<"c", "b">>
    /\ targets["b"] = SubSeq(targets["a"], 1, 2)
    /\ heap[images["c"]].was_pulled /\ ~heap[images["c"]].was_built
    /\ heap[images["b"]].was_built
    /\ Logged("skip_push", "c", "")
    /\ Cardinality(PushesOf("b")) = 1

\* The successful builds issued while the chain of request k was traversed,
\* at a position before p.
BuildsBefore(k, p) ==
    {i \in 1..Len(ops) : /\ ops[i].op = "build" /\ ops[i].result = "ok"
                         /\ ops[i].request = k /\ ops[i].at < p}

Issued(k) == Len(ops') > Len(ops) /\ k = Len(ops) + 1

\* C15 (as claimed): a build is issued only on an image that is Absent, or
\* on a Present image after a validation error the fallback policy handled;
\* and a build never takes an image from Unresolved or Present to Present.
C15_BuildOnlyOnAbsent ==
    \A k \in 1..Len(ops) :
        ops[k].op = "build" =>
            \/ ops[k].loaded = "False"
            \/ /\ ops[k].loaded = "True" /\ ops[k].phase = "load_failed"
               /\ Logged("validate_error", ops[k].target, "ImageValidationError")

\* C15: _loaded changes only from Unresolved to Present or Absent by the
\* existence check, from Absent to Present by a successful pull, and from any
\* state to Present by a successful build; it never leaves Present. A build
\* is issued on an Absent image after a failed load attempt, on a Present
\* image after a tolerated validation error, and on an image in any state
\* when force is set or the flag cache_invalidated is.
C15_Transitions ==
    [][\A i \in 1..Len(heap) :
          /\ heap'[i].loaded # heap[i].loaded =>
                \E k \in 1..Len(ops') :
                    /\ Issued(k) /\ ops'[k].image = i
                    /\ \/ /\ heap[i].loaded = "None" /\ ops'[k].op = "exists"
                          /\ heap'[i].loaded = ops'[k].result
                       \/ /\ heap[i].loaded = "False" /\ ops'[k].op = "pull"
                          /\ ops'[k].result = "ok" /\ heap'[i].loaded = "True"
                       \/ /\ ops'[k].op = "build" /\ ops'[k].result = "ok"
                          /\ heap'[i].loaded = "True"
          /\ heap[i].loaded = "True" => heap'[i].loaded = "True"
          /\ \A k \in 1..Len(ops') :
                (Issued(k) /\ ops'[k].image = i /\ ops'[k].op = "build") =>
                    \/ pc = "load_failed" /\ heap[i].loaded = "False"
                    \/ /\ pc = "load_failed" /\ heap[i].loaded = "True"
                       /\ Logged("validate_error", heap[i].target, "ImageValidationError")
                       /\ options.build_on_validate_error
                    \/ pc = "build" /\ (args.force \/ cache_invalidated)
      ]_vars

C15_Witness ==
    /\ ~args.force
    /\ \E k \in 1..Len(ops) :
          /\ ops[k].op = "build" /\ ops[k].result = "ok"
          /\ ops[k].loaded = "None" /\ ops[k].invalidated
          /\ heap[ops[k].image].loaded = "True"
    /\ \E k \in 1..Len(ops) :
          ops[k].op = "build" /\ ops[k].loaded = "True" /\ ops[k].phase = "load_failed"
    /\ \E k \in 1..Len(ops) : ops[k].op = "pull" /\ ops[k].result = "ok"

\* The targets successfully built while the chain of request r was traversed,
\* in the order of the builds.
IsBuiltIn(r, o) == o.op = "build" /\ o.result = "ok" /\ o.request = r
RECURSIVE BuiltTargets(_, _)
BuiltTargets(r, history) ==
    IF history = <<>> THEN <<>>
    ELSE (IF IsBuiltIn(r, Head(history)) THEN <<Head(history).target>> ELSE <<>>)
         \o BuiltTargets(r, Tail(history))

\* C16: with force no existence check, no pull and no validate is issued in
\* the whole run, and the builds of every requested target are the members
\* of its chain in chain order: all of them once the chain is traversed, the
\* members before the current position while it is.
C16_ForceBuildsAll ==
    args.force =>
        /\ \A k \in 1..Len(ops) : ops[k].op \in {"build", "prune", "push"}
        /\ \A r \in 1..Len(args.targets) :
              LET built == BuiltTargets(r, ops)
                  done  == pc \in {"built", "push", "done"} \/ (InBuildPhase /\ r < ti)
                  chain == IF args.targets[r] \in DOMAIN targets
                           THEN ChainTargets(targets[args.targets[r]]) ELSE <<>>
              IN /\ Len(built) <= Len(chain)
                 /\ built = SubSeq(chain, 1, Len(built))
                 /\ done => built = chain
                 /\ (InBuildPhase /\ r = ti) => Len(built) = pos - 1
                 /\ (InBuildPhase /\ r > ti) => built = <<>>

C16_Witness ==
    /\ args.force /\ pc = "built"
    /\ registry = Line /\ args.targets = <<"b", "a">>
    /\ BuiltTargets(1, ops) = <<"c", "b">>
    /\ BuiltTargets(2, ops) = <<"c", "b", "a">>

\* The calls of one method in the history of a single-image run.
CallsOf(kind) == {k \in 1..Len(ops) : pc = "image" /\ ops[k].op = kind}

\* The progress stream of the call was handed out and carried no such entry.
StreamFailed(c) == c.api = "answer" /\ c.error_entry

\* C17: pull marks the image loaded and pulled exactly when the client
\* answered and the stream carried no error entry; docker's NotFound gives
\* ImageNotFoundError, any other APIError and an error entry give
\* ImageAccessError; a pull that raises leaves the three flags as they were.
C17_PullOutcome ==
    \A k \in CallsOf("pull") :
        LET c == ops[k]
        IN /\ c.result = "ok" <=> (c.api = "answer" /\ ~c.error_entry)
           /\ c.result = "ok" =>
                 c.after = [c.before EXCEPT !.loaded = "True", !.was_pulled = TRUE]
           /\ c.result # "ok" => c.after = c.before
           /\ c.api = "NotFound" => c.result = "ImageNotFoundError"
           /\ (c.api = "APIError" \/ StreamFailed(c)) => c.result = "ImageAccessError"

C17_Witness ==
    /\ pc = "image" /\ Len(ops) = 2
    /\ ops[1].op = "pull" /\ StreamFailed(ops[1])
    /\ ops[1].result = "ImageAccessError" /\ ops[1].after = ops[1].before
    /\ ops[2].op = "pull" /\ ops[2].result = "ok"
    /\ heap[1].was_pulled /\ heap[1].loaded = "True"

\* C18 (as claimed): a build that does not complete a clean stream raises
\* ImageBuildError.
C18_AlwaysBuildError ==
    \A k \in CallsOf("build") :
        ops[k].result # "ok" => ops[k].result = "ImageBuildError"

\* C18: build marks the image loaded and built exactly when the client
\* answered and the stream carried no entry with an error or a message key;
\* such an entry and an APIError of the client give ImageBuildError, an
\* exception of the client that is no APIError propagates as it is; a build
\* that raises leaves the three flags as they were.
C18_BuildOutcome ==
    \A k \in CallsOf("build") :
        LET c == ops[k]
        IN /\ c.result = "ok" <=>
                 (c.api = "answer" /\ ~c.error_entry /\ ~c.message_entry)
           /\ c.result = "ok" =>
                 c.after = [c.before EXCEPT !.loaded = "True", !.was_built = TRUE]
           /\ c.result # "ok" => c.after = c.before
           /\ (c.api \in {"NotFound", "APIError"}
                \/ (c.api = "answer" /\ (c.error_entry \/ c.message_entry)))
                 => c.result = "ImageBuildError"
           /\ c.api = "Exception" => c.result = "Exception"

C18_Witness ==
    /\ pc = "image" /\ Len(ops) = 2
    /\ ops[1].op = "build" /\ ops[1].api = "answer"
    /\ ops[1].message_entry /\ ~ops[1].error_entry
    /\ ops[1].result = "ImageBuildError" /\ ops[1].after = ops[1].before
    /\ ops[2].op = "build" /\ ops[2].api = "Exception"
    /\ ~heap[1].was_built /\ heap[1].loaded = "None"

\* C19 (as claimed): a push whose stream carries an error entry, and a push
\* the client answers with an APIError, raise ImagePushError.
C19_PushError ==
    \A k \in CallsOf("push") :
        (ops[k].api \in {"NotFound", "APIError"} \/ StreamFailed(ops[k]))
            => ops[k].result = "ImagePushError"

\* C20: validate raises nothing exactly when the engine holds an image of
\* that name and reports every expected label with the expected value; it
\* raises ImageNotFoundError when the engine holds none, and
\* ImageValidationError when an expected label is missing or differs; it
\* leaves the three flags as they were.
C20_ValidateOutcome ==
    \A k \in CallsOf("validate") :
        LET c == ops[k]
            expected == heap[1].labels
            agree == \A name \in DOMAIN expected :
                        name \in DOMAIN c.reported /\ c.reported[name] = expected[name]
        IN /\ c.after = c.before
           /\ c.api = "answer" =>
                 /\ c.result = "ok" <=> (c.found /\ agree)
                 /\ ~c.found => c.result = "ImageNotFoundError"
                 /\ (c.found /\ ~agree) => c.result = "ImageValidationError"

C20_Witness ==
    /\ pc = "image" /\ Len(ops) = 2
    /\ heap[1].labels = [target |-> "a", digest |-> "d1"]
    /\ ops[1].op = "validate" /\ ops[1].found
    /\ ops[1].reported = [target |-> "a"]
    /\ ops[1].result = "ImageValidationError"
    /\ ops[2].op = "validate" /\ ops[2].result = "ImageValidationError"
    /\ heap[1].loaded = "None"

\* C21: a prune is issued only directly after a successful build of the same
\* image and only when prune_after_build is set; the step whose prune fails
\* raises nothing (the run is not failed), logs the failure, leaves the image
\* with exactly the flags the build set, was_pulled as it was, every other
\* image untouched, and cache_invalidated as the build alone leaves it: true
\* while the chain goes on.
C21_PruneBestEffort ==
    [][\A k \in 1..Len(ops') :
          (k > Len(ops) /\ ops'[k].op = "prune") =>
             /\ options.prune_after_build
             /\ k = Len(ops) + 2
             /\ ops'[k - 1].op = "build" /\ ops'[k - 1].result = "ok"
             /\ ops'[k - 1].image = ops'[k].image
             /\ ops'[k].result = "failed" =>
                   /\ error' = "none" /\ pc' \in {"build", "built"}
                   /\ Len(log') = Len(log) + 1
                   /\ Last(log') = LogEntry("prune_failed", ops'[k].target, "")
                   /\ heap' = [heap EXCEPT ![ops'[k].image] =
                                  _build_success(heap[ops'[k].image])]
                   /\ cache_invalidated' = (pos < Len(CurrentChain))
                   /\ pc' = "build" => (ti' = ti) = (pos < Len(CurrentChain))
      ]_vars

\* A prune failed and the run went on to issue a later operation.
C21_Witness ==
    \E k \in 1..Len(ops) :
        /\ ops[k].op = "prune" /\ ops[k].result = "failed"
        /\ k < Len(ops) /\ ops[k + 1].image # ops[k].image

\* The reads of is_loaded that listed the images of the repo and got an answer.
AnsweredQueries == {k \in CallsOf("is_loaded") : ops[k].listed /\ ops[k].api = "answer"}

ComputedLabels(t) == [target |-> t, digest |-> digests[t]]
ComputedBuildArgs(t) == BuildArgs(tags, DependsOn(registry, t), EmptyMap)
ComputedKeys == {"dockerfile", "labels", "buildargs", "tag"}
OverrideOf(t, key) ==
    IF key \in DOMAIN BuildOptionsOf(registry, t) THEN BuildOptionsOf(registry, t)[key]
    ELSE EmptyMap

\* C23: the build options of every image hold the keys of the defaults, the
\* four computed keys and the keys of the target's overrides; labels and
\* buildargs hold the computed entries and the override's entries, the
\* override winning per key; every other overridden key holds the override's
\* value; a computed key that is not overridden holds the computed value
\* (the dockerfile of the target, repo:tag of the image) and any other key
\* its default.
C23_BuildOptions ==
    \A t \in DOMAIN images :
        LET bo == heap[images[t]].build_options
            ov == BuildOptionsOf(registry, t)
        IN /\ DOMAIN bo = DOMAIN DEFAULT_BUILD_OPTIONS \cup ComputedKeys \cup DOMAIN ov
           /\ \A key \in DOMAIN bo :
                 IF key \in {"labels", "buildargs"}
                 THEN LET computed == IF key = "labels" THEN ComputedLabels(t)
                                      ELSE ComputedBuildArgs(t)
                      IN /\ DOMAIN bo[key] = DOMAIN computed \cup DOMAIN OverrideOf(t, key)
                         /\ \A name \in DOMAIN bo[key] :
                               bo[key][name] = IF name \in DOMAIN OverrideOf(t, key)
                                               THEN OverrideOf(t, key)[name]
                                               ELSE computed[name]
                 ELSE IF key \in DOMAIN ov THEN bo[key] = ov[key]
                 ELSE IF key = "dockerfile" THEN bo[key] = registry[t].dockerfile
                 ELSE IF key = "tag" THEN bo[key] = ImageName(Repo, heap[images[t]].tag)
                 ELSE bo[key] = DEFAULT_BUILD_OPTIONS[key]

\* The image of a target whose overrides replace a label, add a label, replace
\* a build argument, add one, replace a default and the computed tag, and add
\* a key, beside the image of a target whose override of labels is empty.
C23_Witness ==
    /\ registry = Overrides /\ {"a", "c"} \subseteq DOMAIN images
    /\ LET bo == heap[images["a"]].build_options
       IN /\ DOMAIN bo["labels"] = {"target", "digest", "team"}
          /\ bo["labels"]["target"] = "a"
          /\ bo["labels"]["digest"] # digests["a"]
          /\ Cardinality(DOMAIN bo["buildargs"]) = 3
          /\ bo["squash"] /\ bo["rm"]
          /\ bo["tag"] # ImageName(Repo, tags["a"])
          /\ "target" \in DOMAIN bo
    /\ heap[images["c"]].build_options["labels"] = ComputedLabels("c")
    /\ heap[images["c"]].build_options["path"] = "ctx"

\* C24 (as claimed): the computed build arguments of every materialized
\* target hold exactly one entry per declared dependency, keyed by the
\* prefixed, normalized name of the dependency, whose value is repo:tag of the
\* dependency's image.
C24_OneArgPerDependency ==
    \A t \in DOMAIN images :
        LET deps == Range(DependsOn(registry, t))
            name(d) == BuildArgName(DEFAULT_BUILDARG_PREFIX, d)
        IN /\ DOMAIN ComputedBuildArgs(t) = {name(d) : d \in deps}
           /\ Cardinality(DOMAIN ComputedBuildArgs(t)) = Cardinality(deps)
           /\ \A d \in deps :
                 ComputedBuildArgs(t)[name(d)] = ImageName(Repo, heap[images[d]].tag)
           /\ "buildargs" \notin DOMAIN BuildOptionsOf(registry, t) =>
                 heap[images[t]].build_options["buildargs"] = ComputedBuildArgs(t)

\* C25: in a run whose hash algorithm hashlib does not have, no file is
\* opened, no digest is computed or memoized, no image is created and no
\* engine operation is issued; the first call of the factory ends the run
\* with HashAlgorithmNotFound, also for a target with an explicit tag, unless
\* the arguments were rejected or the resolver failed on the graph before.
C25_NoHasherNoWork ==
    options.hash_algorithm \notin AlgorithmsAvailable =>
        /\ \A i \in 1..Len(log) : log[i].event \notin {"open", "digest"}
        /\ digests = EmptyMap /\ tags = args.tags
        /\ heap = <<>> /\ images = EmptyMap
        /\ ops = <<>>
        /\ pc \in {"parse", "resolve", "failed"}
        /\ pc = "failed" =>
              /\ error \in ConfigurationErrors \cup {"SystemExit2"}
              /\ error = "SystemExit2" => stack = <<>>
              /\ error # "HashAlgorithmNotFound" =>
                    (stack = <<>> \/ ~FrameDone(registry, Last(stack)))
        /\ \A k \in 1..Len(results) : results[k].status \in ConfigurationErrors

\* The run ended with HashAlgorithmNotFound at a target that has an explicit tag.
C25_Witness ==
    /\ options.hash_algorithm \notin AlgorithmsAvailable
    /\ pc = "failed" /\ error = "HashAlgorithmNotFound"
    /\ Last(stack).target \in DOMAIN args.tags

\* The operation is one whose error nothing in the run recovers from: a
\* failed build, a pull error outside allowed_pull_errors, a validation error
\* with build_on_validate_error off (or an image that validate does not
\* find), a failed push.
Unrecovered(o) ==
    \/ o.op = "build" /\ o.result # "ok"
    \/ o.op = "pull" /\ o.result # "ok" /\ o.result \notin options.allowed_pull_errors
    \/ o.op = "validate" /\ o.result = "ImageValidationError"
       /\ ~options.build_on_validate_error
    \/ o.op = "validate" /\ o.result = "ImageNotFoundError"
    \/ o.op = "push" /\ o.result # "ok"

\* C26: an engine operation that fails unrecovered is the last operation of
\* the run: the run is failed with that error, whatever is left of the chain,
\* of the requested targets and of the push phase; and a failed run issues
\* nothing.
C26_ErrorAborts ==
    /\ \A k \in 1..Len(ops) :
          Unrecovered(ops[k]) =>
              /\ k = Len(ops)
              /\ pc = "failed" /\ error = ops[k].result
    /\ pc = "failed" => ~ENABLED Next

\* An unrecovered error at an image that is neither the last of its chain nor
\* in the chain of the last requested target, in a run without force.
C26_Witness ==
    /\ pc = "failed" /\ ops # <<>> /\ ~args.force
    /\ Last(ops).op \in {"pull", "validate"}
    /\ Unrecovered(Last(ops))
    /\ Last(ops).at < Len(targets[args.targets[Last(ops).request]])
    /\ Last(ops).request < Len(args.targets)
    /\ \E k \in 1..Len(ops) : ops[k].op = "pull" /\ ops[k].result = "ok"

\* C27: a tag in the memo is never removed or changed by any step of the run;
\* the tag of a target given on the command line stays the one given; and
\* the tag of every image is the memoized tag of its target.
C27_TagFixed ==
    /\ [](/\ \A t \in DOMAIN args.tags : t \in DOMAIN tags /\ tags[t] = args.tags[t]
          /\ \A t \in DOMAIN images :
                t \in DOMAIN tags /\ heap[images[t]].tag = tags[t])
    /\ [][\A t \in DOMAIN tags : t \in DOMAIN tags' /\ tags'[t] = tags[t]]_vars

\* A run that got through build and push with a target tagged on the command
\* line, whose digest was computed all the same, beside digest-derived tags.
C27_Witness ==
    /\ pc = "done" /\ args.push # <<>>
    /\ \E t \in DOMAIN args.tags :
          /\ t \in DOMAIN images /\ t \in DOMAIN digests
          /\ heap[images[t]].tag = args.tags[t]
          /\ \E k \in 1..Len(ops) : ops[k].op = "push" /\ ops[k].target = t
    /\ \E t \in DOMAIN images \ DOMAIN args.tags :
          tags[t] = ShortDigest(digests[t], options.short_digest_size)

\* The positions of the log at which the digest of t was computed.
DigestsOf(t) == {i \in 1..Len(log) : log[i] = LogEntry("digest", t, "")}

\* C28: at every point of a run the digest of each target has been computed
\* at most once, and exactly once for every target that has an image, a
\* target tagged on the command line included; the files of a target are
\* opened for that one computation only.
C28_DigestOnce ==
    \A t \in DOMAIN registry :
        /\ Cardinality(DigestsOf(t)) <= 1
        /\ t \in DOMAIN images => Cardinality(DigestsOf(t)) = 1
        /\ (t \in DOMAIN digests) = (DigestsOf(t) # {})
        /\ Cardinality({i \in 1..Len(log) : log[i].event = "open" /\ log[i].kind = t})
              = IF DigestsOf(t) = {} THEN 0
                ELSE Len(_get_target_watch_files(registry, listing,
                                                 options.ignore_files, t))

\* The diamond, its two sides requested in turn, after build and push: d has
\* two parents and is in both chains, c is tagged on the command line.
C28_Witness ==
    /\ registry = Diamond /\ args.targets = <<"b", "c">> /\ "c" \in DOMAIN args.tags
    /\ pc = "done" /\ args.push # <<>>
    /\ \A t \in {"b", "c", "d"} : DigestsOf(t) # {}
    /\ \A r \in {"b", "c"} : \E i \in 1..Len(targets[r]) : heap[targets[r][i]].target = "d"

\* The calls of the factory's methods in the history of a factory-only run.
FactoryCalls == {k \in 1..Len(ops) : pc = "factory"}

\* C29 (as claimed): a digest asked for while the digest of a dependency is
\* not memoized is computed all the same, after the digests of the
\* dependencies it lacks, which are memoized too: the call raises nothing
\* and leaves the target and its dependencies in the memo.
C29_DigestRecursive ==
    \A k \in FactoryCalls :
        (ops[k].op = "get_target_digest" /\ ~ops[k].ready) =>
            /\ ops[k].result = "ok"
            /\ {ops[k].target} \cup Succ(registry, ops[k].target) \subseteq DOMAIN digests

\* The run is over: cli returned (after build, and push when asked for) or
\* raised.
RunOver == pc \in {"done", "failed"}

\* C30 (as claimed): the exit status is 0 iff build and the optional push
\* completed without raising, and 1 whenever anything was raised.
C30_ZeroOrOne ==
    RunOver =>
        /\ (main(error) = 0) = (pc = "done")
        /\ pc = "failed" => main(error) = 1

\* C30: the exit status is 0 when build and the optional push completed
\* without raising, and when argparse printed the help; it is 1 when an
\* exception of the run reached main, a classified error or any other; it is
\* 2 when argparse rejected the arguments (a tag given twice), before
\* anything was resolved or issued.
C30_ExitStatus ==
    RunOver =>
        /\ pc = "done" => (error = "none" /\ main(error) = 0)
        /\ pc = "failed" =>
              /\ error # "none"
              /\ main(error) = CASE error = "SystemExit0" -> 0
                                 [] error = "SystemExit2" -> 2
                                 [] OTHER -> 1
              /\ error = "SystemExit0" => args.help
              /\ error = "SystemExit2" => (~args.help /\ DuplicateTag(args.raw_tags))
              /\ error \in {"SystemExit0", "SystemExit2"} =>
                    (ops = <<>> /\ results = <<>> /\ heap = <<>>)
        /\ (main(error) = 0) = (pc = "done" \/ error = "SystemExit0")

\* A run that pulled an image and then met an error that is none of the
\* classified ones ended with status 1.
C30_Witness ==
    /\ pc = "failed" /\ error = "OtherError" /\ main(error) = 1
    /\ \E k \in 1..Len(ops) : ops[k].op = "pull" /\ ops[k].result = "ok"

\* ------------------------------------------------------------------- C31
\* What the values of the variable stand for: the bytes of those that are
\* base64 text of non-empty content.
DecodedContent ==
    (<<"Q", "Q", "=", "=">> :> <<65>>) @@ (<<"Q", "U", "I", "=">> :> <<65, 66>>)
    @@ (<<"Q", "U", "J", "D">> :> <<65, 66, 67>>) @@ (<<"Q", "!", "Q", "=", "=">> :> <<65>>)

\* The cases in which write has something to write and the means to.
WritesDest(c) ==
    /\ DockerenvPath \in DOMAIN c.before
    /\ ENV_KEY \in DOMAIN environ
    /\ environ[ENV_KEY] \in DOMAIN DecodedContent
    /\ c.outcome = "ok"

\* C31: envfile.write creates or replaces dest with the base64-decoded value
\* when the marker exists, the variable is set, it decodes to non-empty
\* content and the file system does not fail; in every other case (marker
\* missing, variable unset, empty value, undecodable value, I/O failure) dest
\* is neither created nor modified; and no exception escapes write.
C31_WriteContract ==
    /\ error = "none"
    /\ \A k \in 1..Len(ops) :
          LET c == ops[k]
          IN /\ c.raised = "none"
             /\ WritesDest(c) =>
                   /\ DestPath \in DOMAIN c.after
                   /\ c.after[DestPath] = DecodedContent[environ[ENV_KEY]]
             /\ ~WritesDest(c) =>
                   /\ DestPath \in DOMAIN c.after <=> DestPath \in DOMAIN c.before
                   /\ DestPath \in DOMAIN c.before =>
                         c.after[DestPath] = c.before[DestPath]

\* A rename that failed left the older content of dest alone, and the next
\* call replaced it with the two decoded bytes.
C31_Witness ==
    /\ Len(ops) = 2
    /\ ops[1].outcome = "rename" /\ ops[1].logged = "OSError"
    /\ DestPath \in DOMAIN ops[1].before
    /\ ops[1].after[DestPath] = <<1, 2>>
    /\ ops[2].outcome = "ok"
    /\ ops[2].before[DestPath] = <<1, 2>> /\ ops[2].after[DestPath] = <<65, 66>>

\* ------------------------------------------------------------------- C32
\* The engine operations the step appended to the history.
NewOps == {k \in 1..Len(ops') : k > Len(ops)}

\* The instance of a target is Present, and the history says how it got so.
PresentBy(d, history) ==
    /\ d \in DOMAIN images
    /\ heap[images[d]].loaded = "True"
    /\ \E j \in 1..Len(history) :
          /\ history[j].target = d
          /\ \/ history[j].op = "exists" /\ history[j].result = "True"
             \/ history[j].op \in {"pull", "build"} /\ history[j].result = "ok"

C33_FlagsMonotone ==
    /\ [](\A i \in 1..Len(heap) :
             (heap[i].was_pulled \/ heap[i].was_built) => heap[i].loaded = "True")
    /\ [][\A i \in 1..Len(heap) :
             /\ heap[i].loaded = "True" => heap'[i].loaded = "True"
             /\ heap[i].was_pulled => heap'[i].was_pulled
             /\ heap[i].was_built => heap'[i].was_built]_vars

\* A pulled image was removed from the engine: the engine no longer holds it
\* and the instance still reads Present and pulled.
C33_Witness ==
    /\ Len(ops) = 2
    /\ ops[1].op = "pull" /\ ops[1].result = "ok"
    /\ ops[2].op = "remove" /\ ops[2].result = "ok"
    /\ heap[1].target \notin DOMAIN engine
    /\ heap[1].loaded = "True" /\ heap[1].was_pulled

\* ------------------------------------------------------------------- C34
\* build(targets, force) has returned normally.
BuildReturned == pc \in {"built", "push", "done"}

C35_BuildOnce ==
    \A i, j \in 1..Len(ops) :
        (ops[i].op = "build" /\ ops[j].op = "build" /\ ops[i].image = ops[j].image)
            => i = j

\* ------------------------------------------------------------------- C36
\* C36: an error other than a validation error raised while validating (the
\* image is not found: it disappeared after its existence was cached, or is
\* missing after a pull reported success) is tolerated neither by the
\* allowed pull errors nor by the validation fallback: it propagates out of
\* build() and no build is issued for that artifact.
C36_ValidateErrorPropagates ==
    \A k \in 1..Len(ops) :
        (ops[k].op = "validate" /\ ops[k].result \notin {"ok", "ImageValidationError"})
            => /\ pc = "failed" /\ error = ops[k].result
               /\ k = Len(ops)
               /\ \A i \in 1..Len(log) :
                     log[i].event \in {"allowed_pull_error", "validate_error"}
                        => \E j \in 1..(k - 1) : ops[j].result = log[i].kind
                                                 /\ ops[j].target = log[i].target

\* With not-found among the allowed pull errors and the validation fallback
\* on, an image found present for the first requested target is gone when
\* the second chain validates it, and the run fails with not-found.
C36_Witness ==
    /\ pc = "failed" /\ error = "ImageNotFoundError"
    /\ "ImageNotFoundError" \in options.allowed_pull_errors
    /\ options.build_on_validate_error
    /\ Last(ops).op = "validate" /\ Last(ops).request = 2
    /\ \E j \in 1..Len(ops) :
          /\ ops[j].op = "exists" /\ ops[j].result = "True" /\ ops[j].request = 1
          /\ ops[j].target = Last(ops).target
    /\ \A j \in 1..Len(ops) : ops[j].target = Last(ops).target => ops[j].op # "pull"

\* ------------------------------------------------------------------- C37
\* The names given to push that have no artifact.
UnknownToPush == {i \in 1..Len(args.push) : args.push[i] \notin DOMAIN images}

\* C37: push(targets) is all-or-nothing with respect to unknown names: if any
\* name in targets has no artifact materialized by the build, push fails
\* before any push operation is issued for any target, and no artifact flag
\* is changed.
C37_PushAllOrNothing ==
    /\ [](UnknownToPush # {} =>
             /\ pc = "failed" /\ error = "KeyError"
             /\ \A k \in 1..Len(ops) : ops[k].op # "push"
             /\ \A i \in 1..Len(log) : log[i].event # "skip_push")
    /\ [][UnknownToPush' # {} => (heap' = heap /\ ops' = ops /\ store' = store)]_vars

\* A push of a built image and of a target the build never touched: the
\* first would have been pushed, and the run failed with nothing pushed.
C37_Witness ==
    /\ pc = "failed" /\ error = "KeyError"
    /\ Len(args.push) = 2
    /\ UnknownToPush = {2}
    /\ heap[images[args.push[1]]].was_built
    /\ \A k \in 1..Len(ops) : ops[k].op # "push"

\* ------------------------------------------------------------------- C38
\* The edges between the frames of the call stack, outermost first.
EdgesOfStack ==
    [k \in 1..(Len(stack) - 1) |-> <<stack[k].target, stack[k + 1].target>>]

\* The active path never holds an edge twice and, while the call runs, holds
\* exactly the edges of the calls that have not returned.
ActivePathKept ==
    /\ NoRepeat(vectors)
    /\ pc = "resolve" => vectors = EdgesOfStack

\* The call is over: it returned (the build phase is next) or raised.
ResolveOver == pc \in {"build", "failed"}

\* C38 (as claimed): resolve_target_images(target) terminates on every
\* finite registry, cyclic graphs and graphs that reference missing targets
\* included; it either returns a build order or raises target-not-found or
\* cyclic-dependency; the active path never holds the same edge twice and is
\* restored to its value at entry whenever the exploration of a dependency
\* returns.
C38_ThreeOutcomes ==
    /\ <>ResolveOver
    /\ [](/\ ActivePathKept
          /\ \A k \in 1..Len(results) :
                results[k].status \in {"ok", "TargetNotFoundError", "TargetCyclicError"})

\* C38: resolve_target_images(target) terminates on every finite registry,
\* cyclic graphs and graphs that reference missing targets included; it
\* returns a build order, or raises target-not-found or cyclic-dependency, or
\* raises the error of the factory that creates the instance of a target
\* (the configured hash algorithm is not available); the active path never
\* holds the same edge twice and is restored to its value at entry whenever
\* the exploration of a dependency returns.
C38_ResolveTerminates ==
    /\ <>ResolveOver
    /\ [](/\ ActivePathKept
          /\ \A k \in 1..Len(results) :
                /\ results[k].status \in {"ok", "TargetNotFoundError", "TargetCyclicError",
                                          "HashAlgorithmNotFound"}
                /\ results[k].status = "HashAlgorithmNotFound" =>
                      ~HasherAvailable(options.hash_algorithm)
          /\ ResolveOver => Len(results) = 1)

\* A call on a cyclic graph ended with cyclic-dependency two edges deep,
\* after the exploration of an earlier dependency had returned.
C38_Witness ==
    /\ pc = "failed" /\ error = "TargetCyclicError"
    /\ Len(vectors) = 2 /\ acc # <<>>
    /\ HasherAvailable(options.hash_algorithm)

====
